---- MODULE Spec2Model ----
(***************************************************************************)
(* Verification model of the BTC 15-minute trading platform:               *)
(*   - the order-flow executor      (orderflow-executor/src)               *)
(*   - the CLOB submission client   (src/clob.rs)                          *)
(*   - the ladder session runner    (src/main.rs, src/strategy.rs,         *)
(*                                   src/position.rs)                      *)
(*   - the directional session      (src/bin/directional_bot.rs)           *)
(*   - the order-flow listener and signal generator                        *)
(*                                   (orderflow-listener/src,              *)
(*                                    orderflow-executor/src/signals.rs)   *)
(*   - order creation and signing   (src/signer.rs)                        *)
(*   - the pre-signed order caches  (src/presign.rs,                       *)
(*                                   src/presigned_cache.rs)               *)
(*   - the multi-strategy simulator (src/multi_strategy.rs)                *)
(*   - the BTC price feed           (src/btc_price.rs)                     *)
(*   - the circuit breaker          (src/retry.rs)                         *)
(* Each subsystem has its own specification; the variables of the other    *)
(* subsystems stay at their initial value under it.                        *)
(***************************************************************************)
EXTENDS Integers, Sequences, FiniteSets, Bags, TLC

(***************************************************************************)
(* Bounds of the model                                                     *)
(***************************************************************************)
MaxSignals == 2
MaxNow == 3
MaxLevels == 2
MaxExtraOrders == 2
MaxQueue == 2
dir_ladder_levels == 2
MaxReversalCount == 2
MaxConsecutive == 3
MaxVolSamples == 10
MaxMarkets == 2
ChannelCapacity == 2
MaxLevelSize == 1
MaxOrderHashes == 5
MaxFlowNow == 1
MaxFlowSignals == 3
FlowTickSecs == 15
MaxSignedOrders == 2
PresignTickSecs == 150
MaxPresignNow == 900
MaxSignalOrders == 1
MaxPending == 2
MaxVirtualShares == 2
max_history == 2
threshold == 2
reset_timeout == 1
MaxFailures == 3
MaxBreakerNow == 3

VARIABLES
    \* ---- order-flow executor (orderflow_signals table, executor task) ----
    signals,            \* orderflow_signals rows, id = index
    open_positions,     \* COUNT(*) of orderflow_positions WHERE status = 'OPEN'
    enable_paper_trading,
    execNow,            \* database clock NOW(), in units of SignalClockUnit
    execPc,             \* position of the executor loop
    pending_signals,    \* rows fetched by execute_pending_signals, in order
    executed_count,     \* executed_count of execute_pending_signals
    lastProcessed       \* what the executor did with the last signal it took

execVars == <<signals, open_positions, enable_paper_trading, execNow, execPc,
              pending_signals, executed_count, lastProcessed>>

VARIABLES
    \* ---- CLOB client (src/clob.rs) ----
    proxy_client,       \* ClobClient.proxy_client is Some (PROXY_URL set)
    scrapeless_token,   \* ClobClient.scrapeless_token is Some
    lambda_proxy_url,   \* Config.lambda_proxy_url is Some
    clobPc,             \* position inside post_order
    attempts,           \* submission attempts of the current post_order call
    postResult          \* value returned by post_order

clobVars == <<proxy_client, scrapeless_token, lambda_proxy_url, clobPc,
              attempts, postResult>>

VARIABLES
    \* ---- ladder session runner (src/main.rs) ----
    sessPc,             \* position of run_trading_loop / run_market_session
    alert,              \* the alert request the runner is awaiting, if any
    pm_lock,            \* the position_manager mutex is held by the runner
    dry_run,            \* Config.dry_run
    alerts_enabled,     \* AlertClient.enabled
    clockIdx,           \* index into SessTimes: seconds left to end_time
    exch_orders,        \* orders of the market resting on the exchange,
                        \* each with the call that placed it
    ladder_ids,         \* (up_order_ids, down_order_ids) of submit_ladder
    order_to_market,    \* PositionManager.order_to_market
    positions,          \* PositionManager.positions[condition_id]
    ws_rx,              \* fills waiting in the WebSocket event channel
    should_rebalance,   \* the position cloned for rebalance_if_needed
    lastFill,           \* the fill just handled, position before and after
    nextOrderId,        \* next order id the exchange hands out
    cancelCalls,        \* calls of the per-market cancel endpoint
    sessResult          \* result of run_market_session

sessVars == <<sessPc, alert, pm_lock, dry_run, alerts_enabled, clockIdx,
              exch_orders, ladder_ids, order_to_market, positions, ws_rx,
              should_rebalance, lastFill, nextOrderId, cancelCalls,
              sessResult>>

VARIABLES
    \* ---- directional session runner (src/bin/directional_bot.rs) ----
    dirPc,              \* position of run_directional_loop / _session
    dirAlert,           \* the alert request the runner is awaiting, if any
    dir_dry_run,        \* Config.dry_run of the directional bot
    dir_alerts_enabled, \* AlertClient.enabled of the directional bot
    dirClockIdx,        \* index into DirTimes: milliseconds left to end_time
    ticked,             \* the loop has run an entry check at this instant
    reversal_tracker,   \* ReversalTracker of the session
    vol_samples,        \* VolatilityTracker.prices.len()
    has_entered,
    skip_reason,
    dir_orders,         \* entry orders of the market resting on the exchange
    position_levels,    \* ladder levels counted into position_shares / _cost
    entry_price,        \* avg_price / levels, as numerator and denominator
    lastEntry           \* what the latest tick saw, when it ran the ladder

dirVars == <<dirPc, dirAlert, dir_dry_run, dir_alerts_enabled, dirClockIdx,
             ticked, reversal_tracker, vol_samples, has_entered, skip_reason,
             dir_orders, position_levels, entry_price, lastEntry>>

VARIABLES
    \* ---- market-data WebSocket task (src/websocket.rs) ----
    ws_market,          \* number of the market the runner is working on
    ws_tasks,           \* markets whose spawned WebSocket task is running
    wsPc,               \* position of the current market's task
    reconnect_count,    \* the AtomicU32 of spawn_websocket_with_orderbook
    consecutive,        \* reconnects since the last successful connection
    ws_channel,         \* events queued in the bounded mpsc channel
    ws_pending,         \* the event a suspended send is holding, and where
                        \* the task goes on once it is queued
    rx_open,            \* the runner still holds the receiver
    mirror,             \* OrderbookManager.books[asset_id]
    lastDelta           \* the price-change frame just handled, mirror
                        \* before and after

wsVars == <<ws_market, ws_tasks, wsPc, reconnect_count, consecutive,
            ws_channel, ws_pending, rx_open, mirror, lastDelta>>

VARIABLES
    \* ---- LocalOrderbook (src/orderbook.rs) ----
    lob,                \* a LocalOrderbook: bids and asks, price -> size
    lobOp               \* the operation applied last, with its level

bookVars == <<lob, lobOp>>

VARIABLES
    orderflow_trades,       \* bag of the rows of table orderflow_trades
    orderflow_signals,      \* bag of the rows of table orderflow_signals
    flowNow,                \* wall clock of the pipeline, in ticks
    enable_whale_following, \* ExecutorConfig flag
    enable_degen_fading,    \* ExecutorConfig flag
    lastIngest,             \* the last process_order_filled, if it was the last step
    lastCycle               \* the last generator cycle, if it was the last step
flowVars == <<orderflow_trades, orderflow_signals, flowNow,
              enable_whale_following, enable_degen_fading, lastIngest,
              lastCycle>>

VARIABLES
    market_tick_size,   \* BtcMarket.tick_size of the session's market
    order_candidate,    \* the ladder level in create_and_submit_order
    signPc,             \* "ladder" | "create_order" | "post_order"
    signed_orders,      \* the candidates create_order has signed
    submitted_orders    \* the candidates post_order has accepted
signVars == <<market_tick_size, order_candidate, signPc, signed_orders,
              submitted_orders>>

VARIABLES
    presignNow,        \* seconds since the market session started
    presign_cache,     \* PreSignCache.cache: keys holding a signed order
    presigned_cache,   \* PresignedCache.cache: key -> CachedOrder.created_at
    lastGet            \* outcome of the latest cache lookup

presignVars == <<presignNow, presign_cache, presigned_cache, lastGet>>


VARIABLES
    pending_orders,    \* VirtualPosition.pending_orders of one strategy
    virtual_shares,    \* VirtualPosition.up_shares of that strategy
    lastFills          \* fills made by the latest callback, with its book

multiVars == <<pending_orders, virtual_shares, lastFills>>


VARIABLES
    current_price,       \* BtcPriceState.current_price (0 before any tick)
    market_open_price,   \* BtcPriceState.market_open_price, an Option
    price_history,       \* BtcPriceState.price_history, newest last
    binance_price,       \* BtcPriceState.binance_price, an Option
    feed_connected,      \* BtcPriceState.connected and binance_connected
    rw_readers,          \* read guards held on the RwLock of the state
    rw_writer,           \* the task that has claimed the write lock
    feedPc,              \* position of each task of the price feed
    lastOutcome          \* the latest get_predicted_outcome call

feedVars == <<current_price, market_open_price, price_history, binance_price,
              feed_connected, rw_readers, rw_writer, feedPc, lastOutcome>>


VARIABLES
    failures,          \* CircuitBreaker.failures
    last_failure,      \* CircuitBreaker.last_failure, an Option of an instant
    last_failure_lock, \* the task holding the mutex of last_failure
    breakerNow,        \* the clock, in units of the model
    breakerPc,         \* position of each task using the breaker
    lastIsOpen         \* what the latest is_open call returned

breakerVars == <<failures, last_failure, last_failure_lock, breakerNow,
                 breakerPc, lastIsOpen>>


vars == <<execVars, clobVars, sessVars, dirVars, wsVars, bookVars,
          flowVars, signVars, presignVars, multiVars, feedVars, breakerVars>>

\* the variables each subsystem leaves alone
notExec == <<clobVars, sessVars, dirVars, wsVars, bookVars,
             flowVars, signVars, presignVars, multiVars, feedVars, breakerVars>>
notClob == <<execVars, sessVars, dirVars, wsVars, bookVars,
             flowVars, signVars, presignVars, multiVars, feedVars, breakerVars>>
notSess == <<execVars, clobVars, dirVars, wsVars, bookVars,
             flowVars, signVars, presignVars, multiVars, feedVars, breakerVars>>
notDir == <<execVars, clobVars, sessVars, wsVars, bookVars,
            flowVars, signVars, presignVars, multiVars, feedVars, breakerVars>>
notWs == <<execVars, clobVars, sessVars, dirVars, bookVars,
           flowVars, signVars, presignVars, multiVars, feedVars, breakerVars>>
notBook == <<execVars, clobVars, sessVars, dirVars, wsVars,
             flowVars, signVars, presignVars, multiVars, feedVars, breakerVars>>
notFlow == <<execVars, clobVars, sessVars, dirVars, wsVars,
             bookVars, signVars, presignVars, multiVars, feedVars, breakerVars>>
notSign == <<execVars, clobVars, sessVars, dirVars, wsVars,
             bookVars, flowVars, presignVars, multiVars, feedVars, breakerVars>>
notPresign == <<execVars, clobVars, sessVars, dirVars, wsVars,
                bookVars, flowVars, signVars, multiVars, feedVars, breakerVars>>
notMulti == <<execVars, clobVars, sessVars, dirVars, wsVars,
              bookVars, flowVars, signVars, presignVars, feedVars, breakerVars>>
notFeed == <<execVars, clobVars, sessVars, dirVars, wsVars,
             bookVars, flowVars, signVars, presignVars, multiVars, breakerVars>>
notBreaker == <<execVars, clobVars, sessVars, dirVars, wsVars,
                bookVars, flowVars, signVars, presignVars, multiVars, feedVars>>

(***************************************************************************)
(* Order-flow executor                                                     *)
(***************************************************************************)
\* ExecutorConfig defaults, confidence in percent
min_signal_confidence == 70
max_open_positions == 5
max_daily_loss == 500
\* LIMIT 10 of the pending-signal query
PendingLimit == 10
\* the query keeps signals created in the last 5 minutes; the model clock
\* counts half-windows, so the window is 2 units
SignalWindow == 2

ConfLevels == {60, 90}
DailyPnls == {-501, -500, 0}
NoSignal == 0
NoneProcessed == [id |-> NoSignal, capReached |-> FALSE, lossReached |-> FALSE,
                  action |-> "none", reason |-> "", statusBefore |-> "NONE"]

\* RiskManager::can_open_position with `>` in place of `>=`
CanOpenPositionOffByOne(open, pnl) ==
    IF open > max_open_positions THEN FALSE
    ELSE IF pnl < -max_daily_loss THEN FALSE
    ELSE TRUE

\* RiskManager::can_open_position
CanOpenPosition(open, pnl) ==
    IF open >= max_open_positions THEN FALSE
    ELSE IF pnl < -max_daily_loss THEN FALSE
    ELSE TRUE

\* WHERE status = 'PENDING' AND confidence >= $1 AND created_at > NOW() - 5 min
IsSelectable(id) ==
    /\ signals[id].status = "PENDING"
    /\ signals[id].confidence >= min_signal_confidence
    /\ signals[id].created_at > execNow - SignalWindow

\* ORDER BY confidence DESC, created_at ASC (ties by id)
Precedes(a, b) ==
    \/ signals[a].confidence > signals[b].confidence
    \/ /\ signals[a].confidence = signals[b].confidence
       /\ signals[a].created_at < signals[b].created_at
    \/ /\ signals[a].confidence = signals[b].confidence
       /\ signals[a].created_at = signals[b].created_at
       /\ a < b

RECURSIVE OrderedIds(_)
OrderedIds(S) ==
    IF S = {} THEN <<>>
    ELSE LET first == CHOOSE a \in S : \A b \in S \ {a} : Precedes(a, b)
         IN <<first>> \o OrderedIds(S \ {first})

FirstN(s, n) == IF Len(s) <= n THEN s ELSE SubSeq(s, 1, n)

SelectPending ==
    FirstN(OrderedIds({id \in 1..Len(signals) : IsSelectable(id)}), PendingLimit)

ExecInit ==
    /\ signals = <<>>
    /\ open_positions \in 0..(max_open_positions + 1)
    /\ enable_paper_trading \in BOOLEAN
    /\ execNow = 0
    /\ execPc = "idle"
    /\ pending_signals = <<>>
    /\ executed_count = 0
    /\ lastProcessed = NoneProcessed

\* SignalGenerator::create_signal: INSERT ... status defaults to PENDING
GenCreateSignal ==
    /\ execPc = "idle"
    /\ Len(signals) < MaxSignals
    /\ \E c \in ConfLevels :
         signals' = Append(signals, [status |-> "PENDING", confidence |-> c,
                                     created_at |-> execNow])
    /\ UNCHANGED <<open_positions, enable_paper_trading, execNow, execPc,
                   pending_signals, executed_count, lastProcessed>>
    /\ UNCHANGED notExec

\* execute_pending_signals, the query and the early return on an empty result
ExecFetch ==
    /\ execPc = "idle"
    /\ pending_signals' = SelectPending
    /\ execPc' = IF SelectPending = <<>> THEN "idle" ELSE "loop"
    /\ executed_count' = 0
    /\ UNCHANGED <<signals, open_positions, enable_paper_trading, execNow,
                   lastProcessed>>
    /\ UNCHANGED notExec

\* execute_signal: paper mode marks EXECUTED (the UPDATE can fail), live mode
\* falls through to Ok(()) without touching the row
ExecuteSignalOk(db_ok) == enable_paper_trading => db_ok

ExecuteSignal(id) ==
    IF enable_paper_trading
    THEN [signals EXCEPT ![id].status = "EXECUTED"]
    ELSE signals

\* mark_signal_skipped: UPDATE ... SET status = 'SKIPPED' WHERE id = $1
MarkSignalSkipped(id) == [signals EXCEPT ![id].status = "SKIPPED"]

Processed(id, pnl, action, reason) ==
    [id |-> id,
     capReached |-> open_positions >= max_open_positions,
     lossReached |-> pnl < -max_daily_loss,
     action |-> action, reason |-> reason,
     statusBefore |-> signals[id].status]

\* one iteration of the for loop of execute_pending_signals
ExecProcessSignal ==
    /\ execPc = "loop"
    /\ pending_signals # <<>>
    /\ LET id == Head(pending_signals)
           rest == Tail(pending_signals)
       IN \E pnl \in DailyPnls, db_ok \in BOOLEAN :
            /\ IF ~CanOpenPosition(open_positions, pnl)
               THEN /\ signals' = MarkSignalSkipped(id)
                    /\ lastProcessed' =
                         Processed(id, pnl, "skip", "Risk limits reached")
               ELSE IF ExecuteSignalOk(db_ok)
               THEN /\ signals' = ExecuteSignal(id)
                    /\ lastProcessed' = Processed(id, pnl, "execute", "")
               ELSE /\ signals' = MarkSignalSkipped(id)
                    /\ lastProcessed' =
                         Processed(id, pnl, "execute_failed", "database error")
            /\ executed_count' =
                 IF CanOpenPosition(open_positions, pnl) /\ ExecuteSignalOk(db_ok)
                 THEN executed_count + 1 ELSE executed_count
            /\ pending_signals' = rest
            /\ execPc' = IF rest = <<>> THEN "idle" ELSE "loop"
    /\ UNCHANGED <<open_positions, enable_paper_trading, execNow>>
    /\ UNCHANGED notExec

\* rows of orderflow_positions are opened and closed outside the executor
EnvPositions ==
    /\ \E n \in {open_positions - 1, open_positions + 1} :
         /\ n \in 0..(max_open_positions + 1)
         /\ open_positions' = n
    /\ UNCHANGED <<signals, enable_paper_trading, execNow, execPc,
                   pending_signals, executed_count, lastProcessed>>
    /\ UNCHANGED notExec

\* the database clock advances
ExecClock ==
    /\ execNow < MaxNow
    /\ execNow' = execNow + 1
    /\ UNCHANGED <<signals, open_positions, enable_paper_trading, execPc,
                   pending_signals, executed_count, lastProcessed>>
    /\ UNCHANGED notExec

ExecNext == GenCreateSignal \/ ExecFetch \/ ExecProcessSignal \/ EnvPositions
            \/ ExecClock

(***************************************************************************)
(* CLOB client: post_order and its submission paths                        *)
(***************************************************************************)
\* reqwest StatusCode::is_success
IsSuccess(status) == status >= 200 /\ status < 300

\* an HTTP answer as the three paths inspect it
BaseResponse ==
    [sent |-> TRUE, parsed |-> TRUE, status |-> 200, error |-> "none",
     code |-> 0, data |-> "absent", statusCode |-> 0, body |-> "absent",
     bodyStatusCode |-> 0]

\* answers through the residential proxy
ProxyResponses ==
    { [BaseResponse EXCEPT !.sent = FALSE],
      [BaseResponse EXCEPT !.parsed = FALSE],
      [BaseResponse EXCEPT !.status = 403],
      [BaseResponse EXCEPT !.status = 401, !.error = "Unauthorized"],
      [BaseResponse EXCEPT !.status = 400, !.error = "other"],
      [BaseResponse EXCEPT !.status = 500],
      [BaseResponse EXCEPT !.error = "other"],
      BaseResponse }

\* answers of the unblocker API; error is the error field of the inner data
ScrapelessResponses ==
    { [BaseResponse EXCEPT !.sent = FALSE],
      [BaseResponse EXCEPT !.parsed = FALSE],
      [BaseResponse EXCEPT !.code = 500],
      [BaseResponse EXCEPT !.code = 200],
      [BaseResponse EXCEPT !.code = 200, !.data = "html"],
      [BaseResponse EXCEPT !.code = 200, !.data = "garbage"],
      [BaseResponse EXCEPT !.code = 200, !.data = "json", !.error = "Unauthorized"],
      [BaseResponse EXCEPT !.code = 200, !.data = "json", !.error = "other"],
      [BaseResponse EXCEPT !.code = 200, !.data = "json"] }

\* answers of the direct request to the exchange
DirectResponses ==
    { [BaseResponse EXCEPT !.sent = FALSE],
      [BaseResponse EXCEPT !.parsed = FALSE],
      [BaseResponse EXCEPT !.status = 403],
      [BaseResponse EXCEPT !.status = 401, !.error = "Unauthorized"],
      [BaseResponse EXCEPT !.status = 400, !.error = "other"],
      BaseResponse }

\* answers of the Lambda proxy: an envelope with statusCode and body
LambdaResponses ==
    { [BaseResponse EXCEPT !.sent = FALSE],
      [BaseResponse EXCEPT !.parsed = FALSE],
      [BaseResponse EXCEPT !.statusCode = 200, !.body = "json"],
      [BaseResponse EXCEPT !.statusCode = 403, !.body = "json"],
      [BaseResponse EXCEPT !.statusCode = 403, !.body = "garbage"],
      [BaseResponse EXCEPT !.statusCode = 400],
      [BaseResponse EXCEPT !.status = 502],
      [BaseResponse EXCEPT !.statusCode = 200, !.body = "json",
                           !.bodyStatusCode = 400] }

NoPayload == [from |-> "none", resp |-> BaseResponse]
Failure(kind, payload) == [kind |-> "Err", err |-> kind, payload |-> payload]
Success(payload) == [kind |-> "Ok", err |-> "", payload |-> payload]
NoResult == [kind |-> "none", err |-> "", payload |-> NoPayload]

\* ClobClient::post_via_proxy after the request was built
PostViaProxy(resp) ==
    LET result == [from |-> "response", resp |-> resp]
    IN IF ~resp.sent THEN Failure("send_failed", NoPayload)
       ELSE IF ~resp.parsed THEN Failure("parse_failed", NoPayload)
       ELSE IF resp.status = 403 THEN Failure("cloudflare_block", NoPayload)
       ELSE IF resp.error = "Unauthorized" THEN Failure("auth_error", result)
       ELSE IF ~IsSuccess(resp.status) THEN Failure("http_error", result)
       ELSE Success(result)

\* ClobClient::post_via_scrapeless after the request was built
PostViaScrapeless(resp) ==
    LET data == [from |-> "data", resp |-> resp]
    IN IF ~resp.sent THEN Failure("send_failed", NoPayload)
       ELSE IF ~resp.parsed THEN Failure("parse_failed", NoPayload)
       ELSE IF resp.code # 200 THEN Failure("scrapeless_error", NoPayload)
       ELSE IF resp.data = "absent" THEN Failure("no_data", NoPayload)
       ELSE IF resp.data = "html" THEN Failure("cloudflare_block", NoPayload)
       ELSE IF resp.data = "garbage" THEN Failure("parse_failed", NoPayload)
       ELSE IF resp.error # "none" THEN Failure("polymarket_error", data)
       ELSE Success(data)

\* the direct branch of post_order
PostDirect(resp) ==
    LET final_result == [from |-> "response", resp |-> resp]
    IN IF ~resp.sent THEN Failure("send_failed", NoPayload)
       ELSE IF ~resp.parsed THEN Failure("parse_failed", NoPayload)
       ELSE IF ~IsSuccess(resp.status) THEN Failure("http_error", final_result)
       ELSE Success(final_result)

\* the Lambda branch of post_order: the body field is unwrapped first and
\* statusCode is then looked up in the unwrapped value
PostViaLambda(resp) ==
    LET unwrapped == resp.body = "json"
        final_result == [from |-> IF unwrapped THEN "body" ELSE "response",
                         resp |-> resp]
        status_code == IF unwrapped THEN resp.bodyStatusCode ELSE resp.statusCode
    IN IF ~resp.sent THEN Failure("send_failed", NoPayload)
       ELSE IF ~resp.parsed THEN Failure("parse_failed", NoPayload)
       ELSE IF status_code >= 400 THEN Failure("http_error", final_result)
       ELSE Success(final_result)

\* post_order keeps going after a successful attempt
FallThroughAlways(outcome, next) == next

\* the match on each proxy attempt: Ok returns, Err goes to the next path
FallThrough(outcome, next) == IF outcome.kind = "Ok" THEN "done" ELSE next

ClobInit ==
    /\ proxy_client \in BOOLEAN
    /\ scrapeless_token \in BOOLEAN
    /\ lambda_proxy_url \in BOOLEAN
    /\ clobPc = "idle"
    /\ attempts = <<>>
    /\ postResult = NoResult

ClobConfig == <<proxy_client, scrapeless_token, lambda_proxy_url>>

\* post_order entry: serialize the order and build the HMAC headers
PostOrderBegin ==
    /\ clobPc = "idle"
    /\ attempts' = <<>>
    /\ \E headers_ok \in BOOLEAN :
         IF headers_ok
         THEN clobPc' = "proxy" /\ postResult' = NoResult
         ELSE clobPc' = "done" /\ postResult' = Failure("headers", NoPayload)
    /\ UNCHANGED ClobConfig
    /\ UNCHANGED notClob

\* post_order, residential proxy first
PostOrderProxy ==
    /\ clobPc = "proxy"
    /\ IF proxy_client
       THEN \E resp \in ProxyResponses :
              LET outcome == PostViaProxy(resp)
              IN /\ attempts' = Append(attempts,
                       [path |-> "proxy", outcome |-> outcome, resp |-> resp])
                 /\ clobPc' = FallThrough(outcome, "scrapeless")
                 /\ postResult' = IF FallThrough(outcome, "scrapeless") = "done"
                                  THEN outcome ELSE postResult
       ELSE /\ clobPc' = "scrapeless"
            /\ UNCHANGED <<attempts, postResult>>
    /\ UNCHANGED ClobConfig
    /\ UNCHANGED notClob

\* post_order, Scrapeless second
PostOrderScrapeless ==
    /\ clobPc = "scrapeless"
    /\ IF scrapeless_token
       THEN \E resp \in ScrapelessResponses :
              LET outcome == PostViaScrapeless(resp)
              IN /\ attempts' = Append(attempts,
                       [path |-> "scrapeless", outcome |-> outcome, resp |-> resp])
                 /\ clobPc' = FallThrough(outcome, "terminal")
                 /\ postResult' = IF FallThrough(outcome, "terminal") = "done"
                                  THEN outcome ELSE postResult
       ELSE /\ clobPc' = "terminal"
            /\ UNCHANGED <<attempts, postResult>>
    /\ UNCHANGED ClobConfig
    /\ UNCHANGED notClob

\* post_order, the terminal path: Lambda proxy if configured, else direct
PostOrderTerminal ==
    /\ clobPc = "terminal"
    /\ IF lambda_proxy_url
       THEN \E resp \in LambdaResponses :
              /\ attempts' = Append(attempts,
                    [path |-> "lambda", outcome |-> PostViaLambda(resp),
                     resp |-> resp])
              /\ postResult' = PostViaLambda(resp)
       ELSE \E resp \in DirectResponses :
              /\ attempts' = Append(attempts,
                    [path |-> "direct", outcome |-> PostDirect(resp),
                     resp |-> resp])
              /\ postResult' = PostDirect(resp)
    /\ clobPc' = "done"
    /\ UNCHANGED ClobConfig
    /\ UNCHANGED notClob

\* the caller takes the result; the client is ready for the next order
PostOrderReturn ==
    /\ clobPc = "done"
    /\ clobPc' = "idle"
    /\ attempts' = <<>>
    /\ postResult' = NoResult
    /\ UNCHANGED ClobConfig
    /\ UNCHANGED notClob

ClobNext == PostOrderBegin \/ PostOrderProxy \/ PostOrderScrapeless
            \/ PostOrderTerminal \/ PostOrderReturn

(***************************************************************************)
(* Ladder session runner: run_trading_loop and run_market_session,         *)
(* with the position manager, the rebalancer and the alert client          *)
(***************************************************************************)
\* shares are counted in thousandths, prices in cents
ShareScale == 1000
tick_size == 1
\* cancel_time = end_time - 2 minutes; the wait for resolution adds 30 s
CancelMarginSecs == 120
ResolutionGraceSecs == 30
\* is_too_late: a market is taken with 13 to 15 minutes left
DiscoverMinSecs == 780
DiscoverMaxSecs == 900
\* seconds left to end_time at the instants the model distinguishes
SessTimes == <<840, 121, 120, 30, 0, -30>>
SecsToEnd == SessTimes[clockIdx]
\* max_position_usd / 2 of the modelled configuration, in dollars
BudgetPerSide == 24
\* the best ask the order book reports, in cents
BestAsk == 50
\* generate_dynamic_ladder keeps prices strictly between 35 and 65 cents
MinLadderPrice == 35
MaxLadderPrice == 65
MaxOrders == 2 * MaxLevels + MaxExtraOrders

NoPosition ==
    [up_shares |-> -1, up_cost |-> -1, down_shares |-> -1, down_cost |-> -1]
DefaultPosition ==
    [up_shares |-> 0, up_cost |-> 0, down_shares |-> 0, down_cost |-> 0]
NoFillEvent == [order_id |-> 0, asset_id |-> "none", price |-> 0, size |-> 0]
NoFill == [seen |-> FALSE, fill |-> NoFillEvent, before |-> NoPosition,
           after |-> NoPosition]
NoIds == [up |-> {}, down |-> {}]
NoAlert == [kind |-> "none", fate |-> "none", resume |-> "none"]
\* the alert client has no request timeout: a request is answered (with
\* success or an error) or stays pending for ever
AlertFates == {"in_flight", "hung"}

Abs(x) == IF x < 0 THEN -x ELSE x

\* Position::is_balanced: diff / avg < 0.1, and balanced when avg is zero
IsBalanced(pos) ==
    LET diff == Abs(pos.up_shares - pos.down_shares)
        sum == pos.up_shares + pos.down_shares
    IN IF sum = 0 THEN TRUE ELSE 20 * diff < sum

\* ladder price of level i (1 = nearest to the ask), one level every 10 cents
LadderPrice(i) == BestAsk - 10 * (i - 1)
LadderLevelsKept ==
    {i \in 1..MaxLevels :
        LadderPrice(i) > MinLadderPrice /\ LadderPrice(i) < MaxLadderPrice}
\* create_ladder_orders: shares = size_per_level / price
LevelShares(price) ==
    ((BudgetPerSide \div MaxLevels) * 100 * ShareScale) \div price
LadderOrders(token, base) ==
    {[id |-> base + i, token |-> token, price |-> LadderPrice(i),
      size |-> LevelShares(LadderPrice(i)), origin |-> "ladder"] :
        i \in LadderLevelsKept}
OrderIds(orders) == {o.id : o \in orders}
\* snipe_spread: shares = min(round(budget / up_ask), round(budget / down_ask))
SnipeShares == ((BudgetPerSide * 100) \div BestAsk) * ShareScale

\* register_orders: Side::Buy marks the UP orders, Side::Sell the DOWN orders
RegisterOrders(otm, up_ids, down_ids) ==
    {e \in otm : e.id \notin (up_ids \cup down_ids)}
        \cup {[id |-> i, side |-> "Buy"] : i \in up_ids \ down_ids}
        \cup {[id |-> i, side |-> "Sell"] : i \in down_ids}
RegisteredSide(otm, id) ==
    IF \E e \in otm : e.id = id
    THEN (CHOOSE e \in otm : e.id = id).side
    ELSE "none"

\* PositionManager::process_fill
ProcessFill(otm, pos, fill) ==
    LET side == RegisteredSide(otm, fill.order_id)
        cost == fill.price * fill.size
    IN IF side = "none" \/ pos = NoPosition
       THEN pos
       ELSE IF side = "Buy"
       THEN [pos EXCEPT !.up_shares = @ + fill.size, !.up_cost = @ + cost]
       ELSE [pos EXCEPT !.down_shares = @ + fill.size, !.down_cost = @ + cost]

\* needed_shares / 3 as create_order rounds it to its share unit
ThirdOf(needed_shares) == (2 * needed_shares + 3) \div 6

\* rebalance_if_needed with the orders on the side that is ahead
RebalancePlanLeadingSide(pos) ==
    LET diff == Abs(pos.up_shares - pos.down_shares)
        sum == pos.up_shares + pos.down_shares
        token == IF pos.up_shares > pos.down_shares THEN "UP" ELSE "DOWN"
        none == [count |-> 0, token |-> token, price |-> 0, size |-> 0]
    IN IF IsBalanced(pos) \/ sum = 0
       THEN none
       ELSE IF 10 * diff > sum /\ 5 * diff <= sum
       THEN [count |-> 3, token |-> token, price |-> BestAsk - tick_size,
             size |-> ThirdOf(diff)]
       ELSE IF 5 * diff > sum
       THEN [count |-> 1, token |-> token, price |-> BestAsk, size |-> diff]
       ELSE none

\* rebalance_if_needed: the orders it builds for a position
RebalancePlan(pos) ==
    LET diff == Abs(pos.up_shares - pos.down_shares)
        sum == pos.up_shares + pos.down_shares
        token == IF pos.up_shares > pos.down_shares THEN "DOWN" ELSE "UP"
        none == [count |-> 0, token |-> token, price |-> 0, size |-> 0]
    IN IF IsBalanced(pos) \/ sum = 0
       THEN none
       ELSE IF 10 * diff > sum /\ 5 * diff <= sum
       THEN [count |-> 3, token |-> token, price |-> BestAsk - tick_size,
             size |-> ThirdOf(diff)]
       ELSE IF 5 * diff > sum
       THEN [count |-> 1, token |-> token, price |-> BestAsk, size |-> diff]
       ELSE none

\* alerts.<kind>(..).await followed by the code at `next`; `locked` tells
\* whether the position_manager guard is alive across the await.
\* AlertClient::send returns at once when no channel is configured.
AwaitAlert(kind, next, locked) ==
    IF alerts_enabled
    THEN /\ sessPc' = "await_alert"
         /\ \E fate \in AlertFates :
              alert' = [kind |-> kind, fate |-> fate, resume |-> next]
         /\ pm_lock' = locked
    ELSE /\ sessPc' = next
         /\ alert' = NoAlert
         /\ pm_lock' = FALSE

SessInit ==
    /\ sessPc = "discover"
    /\ alert = NoAlert
    /\ pm_lock = FALSE
    /\ dry_run \in BOOLEAN
    /\ alerts_enabled \in BOOLEAN
    /\ clockIdx = 1
    /\ exch_orders = {}
    /\ ladder_ids = NoIds
    /\ order_to_market = {}
    /\ positions = NoPosition
    /\ ws_rx = <<>>
    /\ should_rebalance = NoPosition
    /\ lastFill = NoFill
    /\ nextOrderId = 1
    /\ cancelCalls = 0
    /\ sessResult = "none"

\* run_trading_loop: wait_for_next_market returns a market, then the
\* market_found alert is awaited
SessDiscover ==
    /\ sessPc = "discover"
    /\ \E i \in 1..Len(SessTimes) :
         /\ SessTimes[i] >= DiscoverMinSecs /\ SessTimes[i] <= DiscoverMaxSecs
         /\ clockIdx' = i
    /\ exch_orders' = {}
    /\ nextOrderId' = 1
    /\ cancelCalls' = 0
    /\ ws_rx' = <<>>
    /\ ladder_ids' = NoIds
    /\ should_rebalance' = NoPosition
    /\ lastFill' = NoFill
    /\ sessResult' = "running"
    /\ AwaitAlert("market_found", "start", FALSE)
    /\ UNCHANGED <<dry_run, alerts_enabled, order_to_market, positions>>
    /\ UNCHANGED notSess

\* pre-sign, spawn the WebSocket task, wait for the first order book and
\* check the spread: a tight spread ends the session with Ok
SessSetup ==
    /\ sessPc = "start"
    /\ \E spread \in {"none", "tight", "ok"} :
         IF spread = "tight"
         THEN /\ sessResult' = "Ok"
              /\ AwaitAlert("warning", "session_end", FALSE)
         ELSE /\ sessPc' = "submit_ladder"
              /\ UNCHANGED <<alert, pm_lock, sessResult>>
    /\ UNCHANGED <<dry_run, alerts_enabled, clockIdx, exch_orders, ladder_ids,
                   order_to_market, positions, ws_rx, should_rebalance,
                   lastFill, nextOrderId, cancelCalls>>
    /\ UNCHANGED notSess

\* strategy.submit_ladder: both sides are posted in parallel and the call
\* fails when either batch fails
SessSubmitLadder ==
    /\ sessPc = "submit_ladder"
    /\ IF dry_run
       THEN /\ ladder_ids' = NoIds
            /\ UNCHANGED <<exch_orders, nextOrderId, sessResult>>
            /\ AwaitAlert("orders_submitted", "register", FALSE)
       ELSE \E books_ok, up_ok, down_ok \in BOOLEAN :
              LET up == IF books_ok /\ up_ok
                        THEN LadderOrders("UP", 0) ELSE {}
                  down == IF books_ok /\ down_ok
                          THEN LadderOrders("DOWN", MaxLevels) ELSE {}
                  ok == books_ok /\ up_ok /\ down_ok
              IN /\ exch_orders' = exch_orders \cup up \cup down
                 /\ nextOrderId' = 2 * MaxLevels + 1
                 /\ ladder_ids' = IF ok
                                  THEN [up |-> OrderIds(up),
                                        down |-> OrderIds(down)]
                                  ELSE NoIds
                 /\ sessResult' = IF ok THEN sessResult ELSE "Err"
                 /\ IF ok
                    THEN AwaitAlert("orders_submitted", "register", FALSE)
                    ELSE AwaitAlert("error", "session_end", FALSE)
    /\ UNCHANGED <<dry_run, alerts_enabled, clockIdx, order_to_market,
                   positions, ws_rx, should_rebalance, lastFill, cancelCalls>>
    /\ UNCHANGED notSess

\* register the ladder under the lock
SessRegister ==
    /\ sessPc = "register"
    /\ positions' = IF positions = NoPosition THEN DefaultPosition
                    ELSE positions
    /\ order_to_market' =
         RegisterOrders(order_to_market, ladder_ids.up, ladder_ids.down)
    /\ sessPc' = "monitor"
    /\ UNCHANGED <<alert, pm_lock, dry_run, alerts_enabled, clockIdx,
                   exch_orders, ladder_ids, ws_rx, should_rebalance, lastFill,
                   nextOrderId, cancelCalls, sessResult>>
    /\ UNCHANGED notSess

\* monitor loop, now >= cancel_time: cancel_all_orders, then leave the loop;
\* a failed cancel is logged and alerted
SessCancel ==
    /\ sessPc = "monitor"
    /\ SecsToEnd <= CancelMarginSecs
    /\ IF dry_run
       THEN /\ sessPc' = "summary"
            /\ UNCHANGED <<alert, pm_lock, exch_orders, cancelCalls>>
       ELSE \E ok \in BOOLEAN :
              /\ cancelCalls' = cancelCalls + 1
              /\ IF ok
                 THEN /\ exch_orders' = {}
                      /\ sessPc' = "summary"
                      /\ UNCHANGED <<alert, pm_lock>>
                 ELSE /\ UNCHANGED exch_orders
                      /\ AwaitAlert("error", "summary", FALSE)
    /\ UNCHANGED <<dry_run, alerts_enabled, clockIdx, ladder_ids,
                   order_to_market, positions, ws_rx, should_rebalance,
                   lastFill, nextOrderId, sessResult>>
    /\ UNCHANGED notSess

\* monitor loop, WsEvent::TradeFill: process_fill under the lock, then the
\* fill_received alert is awaited
SessRecvFill ==
    /\ sessPc = "monitor"
    /\ SecsToEnd > CancelMarginSecs
    /\ ws_rx # <<>>
    /\ LET fill == Head(ws_rx)
           after == ProcessFill(order_to_market, positions, fill)
       IN /\ positions' = after
          /\ lastFill' = [seen |-> TRUE, fill |-> fill, before |-> positions,
                          after |-> after]
    /\ ws_rx' = Tail(ws_rx)
    /\ AwaitAlert("fill_received", "check_balance", FALSE)
    /\ UNCHANGED <<dry_run, alerts_enabled, clockIdx, exch_orders, ladder_ids,
                   order_to_market, should_rebalance, nextOrderId,
                   cancelCalls, sessResult>>
    /\ UNCHANGED notSess

\* the balance check after a fill: the position_imbalance alert is awaited
\* inside the block that holds the position_manager guard
SessCheckBalance ==
    /\ sessPc = "check_balance"
    /\ IF positions # NoPosition /\ ~IsBalanced(positions)
       THEN /\ should_rebalance' = positions
            /\ AwaitAlert("position_imbalance", "rebalance", TRUE)
       ELSE /\ should_rebalance' = NoPosition
            /\ sessPc' = "monitor"
            /\ UNCHANGED <<alert, pm_lock>>
    /\ lastFill' = NoFill
    /\ UNCHANGED <<dry_run, alerts_enabled, clockIdx, exch_orders, ladder_ids,
                   order_to_market, positions, ws_rx, nextOrderId,
                   cancelCalls, sessResult>>
    /\ UNCHANGED notSess

\* strategy.rebalance_if_needed: each post_order may fail; the ids of the
\* orders placed are returned and dropped by the caller (the model places
\* the orders of a plan only while the order counter is within MaxOrders)
SessRebalance ==
    /\ sessPc = "rebalance"
    /\ LET plan == RebalancePlan(should_rebalance)
       IN \E n \in 0..plan.count :
            /\ dry_run => n = 0
            /\ n > 0 => nextOrderId <= MaxOrders
            /\ exch_orders' = exch_orders \cup
                 {[id |-> nextOrderId + k, token |-> plan.token,
                   price |-> plan.price, size |-> plan.size,
                   origin |-> "rebalance"] : k \in 0..(n - 1)}
            /\ nextOrderId' = nextOrderId + n
    /\ should_rebalance' = NoPosition
    /\ sessPc' = "monitor"
    /\ UNCHANGED <<alert, pm_lock, dry_run, alerts_enabled, clockIdx,
                   ladder_ids, order_to_market, positions, ws_rx, lastFill,
                   cancelCalls, sessResult>>
    /\ UNCHANGED notSess

\* monitor loop, WsEvent::OrderbookUpdate with a spread above the target:
\* snipe_spread posts one order a side; only when both are accepted are they
\* registered, and the orders_submitted alert is awaited under the guard
SessSnipe ==
    /\ sessPc = "monitor"
    /\ SecsToEnd > CancelMarginSecs
    /\ ~dry_run
    /\ \E up_ok, down_ok \in BOOLEAN :
         LET up_id == nextOrderId
             down_id == IF up_ok THEN nextOrderId + 1 ELSE nextOrderId
             up == IF up_ok
                   THEN {[id |-> up_id, token |-> "UP", price |-> BestAsk,
                          size |-> SnipeShares, origin |-> "snipe"]}
                   ELSE {}
             down == IF down_ok
                     THEN {[id |-> down_id, token |-> "DOWN",
                            price |-> BestAsk, size |-> SnipeShares,
                            origin |-> "snipe"]}
                     ELSE {}
             placed == Cardinality(up \cup down)
         IN /\ placed >= 1
            /\ nextOrderId + placed - 1 <= MaxOrders
            /\ exch_orders' = exch_orders \cup up \cup down
            /\ nextOrderId' = nextOrderId + placed
            /\ IF up_ok /\ down_ok
               THEN /\ positions' = IF positions = NoPosition
                                    THEN DefaultPosition ELSE positions
                    /\ order_to_market' =
                         RegisterOrders(order_to_market, {up_id}, {down_id})
                    /\ AwaitAlert("orders_submitted", "monitor", TRUE)
               ELSE UNCHANGED <<positions, order_to_market, sessPc, alert,
                                pm_lock>>
    /\ UNCHANGED <<dry_run, alerts_enabled, clockIdx, ladder_ids, ws_rx,
                   should_rebalance, lastFill, cancelCalls, sessResult>>
    /\ UNCHANGED notSess

\* monitor loop, the 30 s timer with more than 60 s since the last status:
\* the position_update alert is awaited under the guard
SessStatusUpdate ==
    /\ sessPc = "monitor"
    /\ SecsToEnd > CancelMarginSecs
    /\ positions # NoPosition
    /\ alerts_enabled
    /\ AwaitAlert("position_update", "monitor", TRUE)
    /\ UNCHANGED <<dry_run, alerts_enabled, clockIdx, exch_orders, ladder_ids,
                   order_to_market, positions, ws_rx, should_rebalance,
                   lastFill, nextOrderId, cancelCalls, sessResult>>
    /\ UNCHANGED notSess

\* final summary under the lock, then the wait for resolution when the end
\* time is still ahead
SessSummary ==
    /\ sessPc = "summary"
    /\ IF SecsToEnd > 0
       THEN /\ sessPc' = "wait_resolution"
            /\ UNCHANGED <<alert, pm_lock>>
       ELSE AwaitAlert("market_resolved", "clear", FALSE)
    /\ UNCHANGED <<dry_run, alerts_enabled, clockIdx, exch_orders, ladder_ids,
                   order_to_market, positions, ws_rx, should_rebalance,
                   lastFill, nextOrderId, cancelCalls, sessResult>>
    /\ UNCHANGED notSess

\* sleep(time_to_resolution + 30) is over
SessResolved ==
    /\ sessPc = "wait_resolution"
    /\ SecsToEnd <= -ResolutionGraceSecs
    /\ AwaitAlert("market_resolved", "clear", FALSE)
    /\ UNCHANGED <<dry_run, alerts_enabled, clockIdx, exch_orders, ladder_ids,
                   order_to_market, positions, ws_rx, should_rebalance,
                   lastFill, nextOrderId, cancelCalls, sessResult>>
    /\ UNCHANGED notSess

\* clear_position under the lock; run_market_session returns Ok
SessClear ==
    /\ sessPc = "clear"
    /\ positions' = NoPosition
    /\ order_to_market' = {}
    /\ sessResult' = "Ok"
    /\ sessPc' = "session_end"
    /\ UNCHANGED <<alert, pm_lock, dry_run, alerts_enabled, clockIdx,
                   exch_orders, ladder_ids, ws_rx, should_rebalance, lastFill,
                   nextOrderId, cancelCalls>>
    /\ UNCHANGED notSess

\* run_trading_loop after run_market_session: an Err is logged and the
\* error alert is awaited
SessEnd ==
    /\ sessPc = "session_end"
    /\ IF sessResult = "Err"
       THEN AwaitAlert("error", "sleep5", FALSE)
       ELSE /\ sessPc' = "sleep5"
            /\ UNCHANGED <<alert, pm_lock>>
    /\ UNCHANGED <<dry_run, alerts_enabled, clockIdx, exch_orders, ladder_ids,
                   order_to_market, positions, ws_rx, should_rebalance,
                   lastFill, nextOrderId, cancelCalls, sessResult>>
    /\ UNCHANGED notSess

\* the 5 s pause before the next market
SessSleep ==
    /\ sessPc = "sleep5"
    /\ sessPc' = "discover"
    /\ UNCHANGED <<alert, pm_lock, dry_run, alerts_enabled, clockIdx,
                   exch_orders, ladder_ids, order_to_market, positions, ws_rx,
                   should_rebalance, lastFill, nextOrderId, cancelCalls,
                   sessResult>>
    /\ UNCHANGED notSess

\* the alert endpoint answers (success or error, both only logged): the
\* await returns and a guard held across it is dropped at the end of its block
AlertAnswer ==
    /\ sessPc = "await_alert"
    /\ alert.fate = "in_flight"
    /\ sessPc' = alert.resume
    /\ alert' = NoAlert
    /\ pm_lock' = FALSE
    /\ UNCHANGED <<dry_run, alerts_enabled, clockIdx, exch_orders, ladder_ids,
                   order_to_market, positions, ws_rx, should_rebalance,
                   lastFill, nextOrderId, cancelCalls, sessResult>>
    /\ UNCHANGED notSess

\* the exchange matches a resting order; the WebSocket task turns the frame
\* into a TradeFill event
ExchangeFill ==
    /\ sessResult = "running"
    /\ sessPc \notin {"discover", "start", "submit_ladder"}
    /\ Len(ws_rx) < MaxQueue
    /\ \E o \in exch_orders :
         /\ exch_orders' = exch_orders \ {o}
         /\ ws_rx' = Append(ws_rx, [order_id |-> o.id, asset_id |-> o.token,
                                    price |-> o.price, size |-> o.size])
    /\ UNCHANGED <<sessPc, alert, pm_lock, dry_run, alerts_enabled, clockIdx,
                   ladder_ids, order_to_market, positions, should_rebalance,
                   lastFill, nextOrderId, cancelCalls, sessResult>>
    /\ UNCHANGED notSess

\* time passes while the runner waits: for an alert, for the order book,
\* for an event or for the resolution
SessClock ==
    /\ sessPc \in {"await_alert", "start", "monitor", "wait_resolution"}
    /\ clockIdx < Len(SessTimes)
    /\ clockIdx' = clockIdx + 1
    /\ UNCHANGED <<sessPc, alert, pm_lock, dry_run, alerts_enabled,
                   exch_orders, ladder_ids, order_to_market, positions, ws_rx,
                   should_rebalance, lastFill, nextOrderId, cancelCalls,
                   sessResult>>
    /\ UNCHANGED notSess

\* the steps of the runner task
SessRunner == SessDiscover \/ SessSetup \/ SessSubmitLadder \/ SessRegister
              \/ SessCancel \/ SessRecvFill \/ SessCheckBalance
              \/ SessRebalance \/ SessSnipe \/ SessStatusUpdate
              \/ SessSummary \/ SessResolved \/ SessClear \/ SessEnd
              \/ SessSleep

SessNext == SessRunner \/ AlertAnswer \/ ExchangeFill \/ SessClock

(***************************************************************************)
(* Directional session runner: run_directional_loop and                    *)
(* run_directional_session with its trackers and entry guards              *)
(***************************************************************************)
\* DirectionalConfig of main(): minutes as seconds left of the 900 s period
\* (minute_of_period = 15 - seconds_to_end / 60), prices in cents
entry_minute_min_secs == 720
entry_minute_max_secs == 90
momentum_bypass_secs == 300
max_entry_price == 75
limit_offset == 2
ladder_spacing == 2
\* cancel_time = end_time - 1 minute, in milliseconds left
DirCancelMarginMs == 60000
\* volatility_pct needs 10 samples
VolMinSamples == 10
\* milliseconds left to end_time at the instants the model distinguishes
DirTimes == <<780000, 721000, 720999, 720001, 720000, 300001, 300000, 90000,
              89999, 60001, 60000, -30000>>
MsToEnd == DirTimes[dirClockIdx]
\* chrono's num_seconds(): whole seconds, truncated towards zero
NumSeconds(ms) == IF ms >= 0 THEN ms \div 1000 ELSE -((-ms) \div 1000)
BestAsks == {75, 76}

NewReversalTracker ==
    [last_direction |-> "none", reversal_count |-> 0, consecutive_same |-> 0]
NoEntryPrice == [num |-> 0, den |-> 1]
NoEntry ==
    [seen |-> FALSE, ms_to_end |-> 0, reversal_count |-> 0,
     consecutive_same |-> 0, volatility |-> "none", momentum_aligned |-> FALSE,
     sized |-> FALSE, best_ask |-> 0, submitted |-> {}]

Min(a, b) == IF a < b THEN a ELSE b
Max(a, b) == IF a > b THEN a ELSE b

\* ReversalTracker::update; the counters saturate at the model's caps
ReversalUpdate(t, is_up) ==
    IF is_up = "none" THEN t
    ELSE IF t.last_direction = "none"
    THEN [t EXCEPT !.last_direction = is_up, !.consecutive_same = 1]
    ELSE IF t.last_direction # is_up
    THEN [last_direction |-> is_up,
          reversal_count |-> Min(t.reversal_count + 1, MaxReversalCount),
          consecutive_same |-> 1]
    ELSE [t EXCEPT !.consecutive_same = Min(@ + 1, MaxConsecutive)]
\* is_choppy with the threshold one reversal too high
IsChoppyOffByOne(t) == t.reversal_count >= 3
IsChoppy(t) == t.reversal_count >= 2
IsTrendConsistent(t) == t.consecutive_same >= 3

\* VolatilityTracker::add_price: a FIFO of at most max_samples prices
AddPrice(n) == Min(n + 1, MaxVolSamples)
\* VolatilityTracker::volatility_pct: None below 10 samples, else the
\* coefficient of variation, here by the band it falls in:
\* "low" < 0.01 <= "ok" <= 0.5 < "high"
VolatilityPct(n, band) == IF n < VolMinSamples THEN "none" ELSE band

\* price of ladder level l (0-based) with use_limit_orders
LevelPrice(best_ask, l) ==
    Max(best_ask - limit_offset - ladder_spacing * l, 1)
DirLevels == Max(dir_ladder_levels, 1)

\* the minute window of the entry check, on the whole seconds left
InEntryWindow(secs) ==
    secs <= entry_minute_min_secs /\ secs >= entry_minute_max_secs

\* the ordered guards of the entry check: "enter", a skip reason, or "idle"
\* when the check leaves the state alone
EntryDecision(entered, secs, t, obs, vol) ==
    IF entered \/ ~InEntryWindow(secs) THEN "idle"
    ELSE IF IsChoppy(t) THEN "Choppy market"
    ELSE IF ~IsTrendConsistent(t) THEN "Trend not consistent"
    ELSE IF obs.spread = "none" \/ obs.is_up = "none" THEN "idle"
    ELSE IF vol = "high" THEN "Volatility too high"
    ELSE IF vol = "low" THEN "Market too flat"
    ELSE IF ~obs.momentum_aligned /\ secs > momentum_bypass_secs
    THEN "Momentum not aligned"
    ELSE IF ~obs.sized THEN "Confidence too low"
    ELSE IF obs.best_ask <= max_entry_price THEN "enter"
    ELSE "Price too high"

\* what one tick reads: the BTC direction, the order book, the volatility
\* band (when computable), the momentum check, whether the size band is
\* non-zero, and the best ask of the chosen side
Directions == {"none", "up", "down"}
Observations ==
    [is_up : Directions, spread : {"none", "some"},
     band : {"low", "ok", "high"}, momentum_aligned : BOOLEAN,
     sized : BOOLEAN, best_ask : BestAsks]
NoObservation ==
    [is_up |-> "none", spread |-> "none", band |-> "ok",
     momentum_aligned |-> FALSE, sized |-> FALSE, best_ask |-> 0]
\* the outcomes one entry check can have, over everything it may read after
\* the direction: the decision, and what was read when the decision is to enter
TickOutcomes(entered, secs, t, is_up, n) ==
    {LET d == EntryDecision(entered, secs, t, obs, VolatilityPct(n, obs.band))
     IN [decision |-> d,
         obs |-> IF d = "enter" THEN obs ELSE NoObservation,
         volatility |-> IF d = "enter" THEN VolatilityPct(n, obs.band)
                        ELSE "none"] :
        obs \in {o \in Observations : o.is_up = is_up}}

NoDirAlert == [kind |-> "none", fate |-> "none", resume |-> "none"]
DirAwaitAlert(kind, next) ==
    IF dir_alerts_enabled
    THEN /\ dirPc' = "await_alert"
         /\ \E fate \in AlertFates :
              dirAlert' = [kind |-> kind, fate |-> fate, resume |-> next]
    ELSE /\ dirPc' = next
         /\ dirAlert' = NoDirAlert

DirInit ==
    /\ dirPc = "discover"
    /\ dirAlert = NoDirAlert
    /\ dir_dry_run \in BOOLEAN
    /\ dir_alerts_enabled \in BOOLEAN
    /\ dirClockIdx = 1
    /\ ticked = FALSE
    /\ reversal_tracker = NewReversalTracker
    /\ vol_samples = 0
    /\ has_entered = FALSE
    /\ skip_reason = "none"
    /\ dir_orders = {}
    /\ position_levels = {}
    /\ entry_price = NoEntryPrice
    /\ lastEntry = NoEntry

\* run_directional_loop: wait_for_next_market returns a market with 13 to 15
\* minutes left, then the market_found alert is awaited
DirDiscover ==
    /\ dirPc = "discover"
    /\ \E i \in 1..Len(DirTimes) :
         /\ DirTimes[i] >= DiscoverMinSecs * 1000
         /\ DirTimes[i] <= DiscoverMaxSecs * 1000
         /\ dirClockIdx' = i
    /\ dir_orders' = {}
    /\ lastEntry' = NoEntry
    /\ DirAwaitAlert("market_found", "setup")
    /\ UNCHANGED <<dir_dry_run, dir_alerts_enabled, ticked, reversal_tracker,
                   vol_samples, has_entered, skip_reason, position_levels,
                   entry_price>>
    /\ UNCHANGED notDir

\* run_directional_session up to the monitor loop: mark the open price, wait
\* for the WebSocket, fresh session state
DirSetup ==
    /\ dirPc = "setup"
    /\ has_entered' = FALSE
    /\ skip_reason' = "none"
    /\ position_levels' = {}
    /\ entry_price' = NoEntryPrice
    /\ reversal_tracker' = NewReversalTracker
    /\ ticked' = FALSE
    /\ dirPc' = "loop"
    /\ UNCHANGED <<dirAlert, dir_dry_run, dir_alerts_enabled, dirClockIdx,
                   vol_samples, dir_orders, lastEntry>>
    /\ UNCHANGED notDir

\* monitor loop, now >= cancel_time: the loop is left; no order is cancelled
DirBreak ==
    /\ dirPc = "loop"
    /\ MsToEnd <= DirCancelMarginMs
    /\ dirPc' = "summary"
    /\ lastEntry' = NoEntry
    /\ UNCHANGED <<dirAlert, dir_dry_run, dir_alerts_enabled, dirClockIdx,
                   ticked, reversal_tracker, vol_samples, has_entered,
                   skip_reason, dir_orders, position_levels, entry_price>>
    /\ UNCHANGED notDir

RECURSIVE SumLevelPrices(_, _)
SumLevelPrices(best_ask, levels) ==
    IF levels = {} THEN 0
    ELSE LET l == CHOOSE x \in levels : TRUE
         IN LevelPrice(best_ask, l) + SumLevelPrices(best_ask, levels \ {l})

\* monitor loop, the 500 ms entry check: the trackers are updated, the
\* ordered guards are applied and, when all pass, the ladder is submitted
\* level by level (a failed level is only logged)
DirTick ==
    /\ dirPc = "loop"
    /\ MsToEnd > DirCancelMarginMs
    /\ ~ticked
    /\ ticked' = TRUE
    /\ \E is_up \in Directions :
         LET secs == NumSeconds(MsToEnd)
             n == AddPrice(vol_samples)
             t == ReversalUpdate(reversal_tracker, is_up)
             all == 0..(DirLevels - 1)
         IN /\ vol_samples' = n
            /\ reversal_tracker' = t
            /\ \E out \in TickOutcomes(has_entered, secs, t, is_up, n) :
                 IF out.decision = "enter"
                 THEN \E counted \in SUBSET all :
                        /\ dir_dry_run => counted = all
                        /\ dir_orders' =
                             IF dir_dry_run THEN dir_orders
                             ELSE dir_orders \cup
                                  {[level |-> l,
                                    price |-> LevelPrice(out.obs.best_ask, l)] :
                                       l \in counted}
                        /\ lastEntry' =
                             [seen |-> TRUE, ms_to_end |-> MsToEnd,
                              reversal_count |-> t.reversal_count,
                              consecutive_same |-> t.consecutive_same,
                              volatility |-> out.volatility,
                              momentum_aligned |-> out.obs.momentum_aligned,
                              sized |-> out.obs.sized,
                              best_ask |-> out.obs.best_ask,
                              submitted |-> all]
                        /\ IF counted # {}
                           THEN /\ has_entered' = TRUE
                                /\ position_levels' = counted
                                /\ entry_price' =
                                     [num |-> SumLevelPrices(out.obs.best_ask,
                                                            counted),
                                      den |-> DirLevels]
                                /\ DirAwaitAlert("market_entry", "loop")
                           ELSE UNCHANGED <<has_entered, position_levels,
                                            entry_price, dirPc, dirAlert>>
                        /\ UNCHANGED skip_reason
                 ELSE /\ skip_reason' = IF out.decision = "idle"
                                        THEN skip_reason ELSE out.decision
                      /\ lastEntry' = NoEntry
                      /\ UNCHANGED <<dirPc, dirAlert, has_entered, dir_orders,
                                     position_levels, entry_price>>
    /\ UNCHANGED <<dir_dry_run, dir_alerts_enabled, dirClockIdx>>
    /\ UNCHANGED notDir

\* after the loop: the session summary and its alert
DirSummary ==
    /\ dirPc = "summary"
    /\ IF has_entered
       THEN DirAwaitAlert("market_resolved", "resolution")
       ELSE DirAwaitAlert("market_skipped", "resolution")
    /\ UNCHANGED <<dir_dry_run, dir_alerts_enabled, dirClockIdx, ticked,
                   reversal_tracker, vol_samples, has_entered, skip_reason,
                   dir_orders, position_levels, entry_price, lastEntry>>
    /\ UNCHANGED notDir

\* the wait for resolution: sleep(time_to_resolution + 30) when the end time
\* is still ahead, else the session returns at once
DirResolution ==
    /\ dirPc = "resolution"
    /\ dirPc' = IF NumSeconds(MsToEnd) > 0 THEN "wait_resolution" ELSE "sleep5"
    /\ UNCHANGED <<dirAlert, dir_dry_run, dir_alerts_enabled, dirClockIdx,
                   ticked, reversal_tracker, vol_samples, has_entered,
                   skip_reason, dir_orders, position_levels, entry_price,
                   lastEntry>>
    /\ UNCHANGED notDir

DirResolved ==
    /\ dirPc = "wait_resolution"
    /\ MsToEnd <= -(ResolutionGraceSecs * 1000)
    /\ dirPc' = "sleep5"
    /\ UNCHANGED <<dirAlert, dir_dry_run, dir_alerts_enabled, dirClockIdx,
                   ticked, reversal_tracker, vol_samples, has_entered,
                   skip_reason, dir_orders, position_levels, entry_price,
                   lastEntry>>
    /\ UNCHANGED notDir

\* run_directional_session returned Ok; the 5 s pause before the next market
DirSleep ==
    /\ dirPc = "sleep5"
    /\ dirPc' = "discover"
    /\ UNCHANGED <<dirAlert, dir_dry_run, dir_alerts_enabled, dirClockIdx,
                   ticked, reversal_tracker, vol_samples, has_entered,
                   skip_reason, dir_orders, position_levels, entry_price,
                   lastEntry>>
    /\ UNCHANGED notDir

\* the alert endpoint answers and the await returns
DirAlertAnswer ==
    /\ dirPc = "await_alert"
    /\ dirAlert.fate = "in_flight"
    /\ dirPc' = dirAlert.resume
    /\ dirAlert' = NoDirAlert
    /\ UNCHANGED <<dir_dry_run, dir_alerts_enabled, dirClockIdx, ticked,
                   reversal_tracker, vol_samples, has_entered, skip_reason,
                   dir_orders, position_levels, entry_price, lastEntry>>
    /\ UNCHANGED notDir

\* the exchange matches a resting entry order; the runner only logs the fill
DirExchangeFill ==
    /\ \E o \in dir_orders : dir_orders' = dir_orders \ {o}
    /\ UNCHANGED <<dirPc, dirAlert, dir_dry_run, dir_alerts_enabled,
                   dirClockIdx, ticked, reversal_tracker, vol_samples,
                   has_entered, skip_reason, position_levels, entry_price,
                   lastEntry>>
    /\ UNCHANGED notDir

\* time passes while the runner waits: for an alert, for the WebSocket, for
\* the next tick or for the resolution
DirClock ==
    /\ dirPc \in {"await_alert", "setup", "loop", "wait_resolution"}
    /\ dirClockIdx < Len(DirTimes)
    /\ dirClockIdx' = dirClockIdx + 1
    /\ ticked' = FALSE
    /\ UNCHANGED <<dirPc, dirAlert, dir_dry_run, dir_alerts_enabled,
                   reversal_tracker, vol_samples, has_entered, skip_reason,
                   dir_orders, position_levels, entry_price, lastEntry>>
    /\ UNCHANGED notDir

DirRunner == DirDiscover \/ DirSetup \/ DirBreak \/ DirTick \/ DirSummary
             \/ DirResolution \/ DirResolved \/ DirSleep

DirNext == DirRunner \/ DirAlertAnswer \/ DirExchangeFill \/ DirClock

(***************************************************************************)
(* LocalOrderbook: the per-asset mirror, price -> size on each side; a     *)
(* price that is not in the BTreeMap has size 0 here, and bid_keys and     *)
(* ask_keys are the keys the two BTreeMaps hold                            *)
(***************************************************************************)
BookPrices == {49, 50, 51}
LevelSizes == 0..MaxLevelSize
Ladders == [BookPrices -> LevelSizes]
NoLevels == [p \in BookPrices |-> 0]
\* LocalOrderbook::new
NewLocalOrderbook ==
    [bids |-> NoLevels, asks |-> NoLevels, bid_keys |-> {}, ask_keys |-> {}]
NoPrice == 0
\* one level of a price-change frame: side, price, new size
NoDeltaFrame == [is_bid |-> FALSE, price |-> 0, size |-> 0]

\* update_from_snapshot: both maps are cleared, then every level with a
\* size above 0 is inserted
UpdateFromSnapshot(book, bids, asks) ==
    [bids |-> [p \in BookPrices |-> IF bids[p] > 0 THEN bids[p] ELSE 0],
     asks |-> [p \in BookPrices |-> IF asks[p] > 0 THEN asks[p] ELSE 0],
     bid_keys |-> {p \in BookPrices : bids[p] > 0},
     ask_keys |-> {p \in BookPrices : asks[p] > 0}]

\* update_level: insert or replace the level when size > 0, else remove it
UpdateLevelInsertAlways(book, is_bid, price, size) ==
    IF is_bid
    THEN [book EXCEPT !.bids[price] = size, !.bid_keys = @ \cup {price}]
    ELSE [book EXCEPT !.asks[price] = size, !.ask_keys = @ \cup {price}]

UpdateLevel(book, is_bid, price, size) ==
    IF is_bid
    THEN [book EXCEPT
             !.bids[price] = IF size > 0 THEN size ELSE 0,
             !.bid_keys = IF size > 0 THEN @ \cup {price} ELSE @ \ {price}]
    ELSE [book EXCEPT
             !.asks[price] = IF size > 0 THEN size ELSE 0,
             !.ask_keys = IF size > 0 THEN @ \cup {price} ELSE @ \ {price}]

LevelPrices(ladder) == {p \in BookPrices : ladder[p] > 0}
\* best_bid: the last key of bids; best_ask: the first key of asks
best_bid(book) ==
    IF LevelPrices(book.bids) = {} THEN NoPrice
    ELSE CHOOSE p \in LevelPrices(book.bids) :
           \A q \in LevelPrices(book.bids) : q <= p
best_ask(book) ==
    IF LevelPrices(book.asks) = {} THEN NoPrice
    ELSE CHOOSE p \in LevelPrices(book.asks) :
           \A q \in LevelPrices(book.asks) : p <= q

\* the books an exchange that matches crossing orders can show: every bid
\* below every ask
ExchangeBooks ==
    {b \in [bids : Ladders, asks : Ladders] :
        \A p \in LevelPrices(b.bids) : \A q \in LevelPrices(b.asks) : p < q}

LobInit ==
    /\ lob = NewLocalOrderbook
    /\ lobOp = [op |-> "new", level |-> NoDeltaFrame]

LobSnapshot ==
    /\ \E b \in ExchangeBooks : lob' = UpdateFromSnapshot(lob, b.bids, b.asks)
    /\ lobOp' = [op |-> "update_from_snapshot", level |-> NoDeltaFrame]
    /\ UNCHANGED notBook

LobUpdateLevel ==
    /\ \E is_bid \in BOOLEAN, price \in BookPrices, size \in LevelSizes :
         /\ lob' = UpdateLevel(lob, is_bid, price, size)
         /\ lobOp' = [op |-> "update_level",
                      level |-> [is_bid |-> is_bid, price |-> price,
                                 size |-> size]]
    /\ UNCHANGED notBook

LobNext == LobSnapshot \/ LobUpdateLevel

(***************************************************************************)
(* Market-data WebSocket task: spawn_websocket_with_orderbook,             *)
(* run_websocket_connection and handle_ws_message, with the runner that    *)
(* spawns the task per market and reads its event channel                  *)
(***************************************************************************)
\* `if count > 10` on the value fetch_add returns; the 30 s sleep
ReconnectLimit == 10
\* the history counter saturates above every value the counter can take
ConsecutiveCap == ReconnectLimit + 2
WsEvents == {"Connected", "Disconnected", "OrderbookUpdate", "PriceChange",
             "TradeFill"}
NoPending == [event |-> "none", resume |-> "none"]
NoDelta == [seen |-> FALSE, frame |-> NoDeltaFrame,
            before |-> NewLocalOrderbook, after |-> NewLocalOrderbook]

\* event_tx.send(ev).await: queued when the channel has room; an error at
\* once (ignored) when the receiver is gone; else the send is suspended
\* until the consumer makes room
Send(ev, next) ==
    IF ~rx_open
    THEN /\ wsPc' = next
         /\ UNCHANGED <<ws_channel, ws_pending>>
    ELSE IF Len(ws_channel) < ChannelCapacity
    THEN /\ ws_channel' = Append(ws_channel, ev)
         /\ wsPc' = next
         /\ UNCHANGED ws_pending
    ELSE /\ wsPc' = "send_suspended"
         /\ ws_pending' = [event |-> ev, resume |-> next]
         /\ UNCHANGED ws_channel

WsInit ==
    /\ ws_market = 0
    /\ ws_tasks = {}
    /\ wsPc = "none"
    /\ reconnect_count = 0
    /\ consecutive = 0
    /\ ws_channel = <<>>
    /\ ws_pending = NoPending
    /\ rx_open = FALSE
    /\ mirror = NewLocalOrderbook
    /\ lastDelta = NoDelta

\* the runner takes the next market and spawns its task: a fresh channel
\* and counter; the JoinHandle is dropped and nothing stops an earlier task
WsSpawn ==
    /\ ~rx_open
    /\ ws_market < MaxMarkets
    /\ ws_market' = ws_market + 1
    /\ ws_tasks' = ws_tasks \cup {ws_market + 1}
    /\ wsPc' = "connecting"
    /\ reconnect_count' = 0
    /\ consecutive' = 0
    /\ ws_channel' = <<>>
    /\ ws_pending' = NoPending
    /\ rx_open' = TRUE
    /\ mirror' = NewLocalOrderbook
    /\ lastDelta' = NoDelta
    /\ UNCHANGED notWs

\* the session returns and the receiver is dropped with what it still holds
WsSessionOver ==
    /\ rx_open
    /\ rx_open' = FALSE
    /\ ws_channel' = <<>>
    /\ UNCHANGED <<ws_market, ws_tasks, wsPc, reconnect_count, consecutive,
                   ws_pending, mirror, lastDelta>>
    /\ UNCHANGED notWs

\* the runner's loop takes one event from the channel
WsRecv ==
    /\ rx_open
    /\ ws_channel # <<>>
    /\ ws_channel' = Tail(ws_channel)
    /\ UNCHANGED <<ws_market, ws_tasks, wsPc, reconnect_count, consecutive,
                   ws_pending, rx_open, mirror, lastDelta>>
    /\ UNCHANGED notWs

\* run_websocket_connection: connect within 10 s and subscribe, or return Err
WsConnect ==
    /\ wsPc = "connecting"
    /\ \E ok \in BOOLEAN :
         IF ok
         THEN /\ consecutive' = 0
              /\ Send("Connected", "reading")
         ELSE /\ wsPc' = "count"
              /\ UNCHANGED <<consecutive, ws_channel, ws_pending>>
    /\ lastDelta' = NoDelta
    /\ UNCHANGED <<ws_market, ws_tasks, reconnect_count, rx_open, mirror>>
    /\ UNCHANGED notWs

\* read loop, a book frame: the mirror is replaced by the snapshot and an
\* OrderbookUpdate event is sent
WsBookFrame ==
    /\ wsPc = "reading"
    /\ \E b \in ExchangeBooks :
         mirror' = UpdateFromSnapshot(mirror, b.bids, b.asks)
    /\ Send("OrderbookUpdate", "reading")
    /\ lastDelta' = NoDelta
    /\ UNCHANGED <<ws_market, ws_tasks, reconnect_count, consecutive,
                   rx_open>>
    /\ UNCHANGED notWs

\* read loop, a price-change frame: a PriceChange event is sent; the mirror
\* is not touched
WsPriceChangeFrame ==
    /\ wsPc = "reading"
    /\ \E is_bid \in BOOLEAN, price \in BookPrices, size \in LevelSizes :
         lastDelta' = [seen |-> TRUE,
                       frame |-> [is_bid |-> is_bid, price |-> price,
                                  size |-> size],
                       before |-> mirror, after |-> mirror]
    /\ Send("PriceChange", "reading")
    /\ UNCHANGED <<ws_market, ws_tasks, reconnect_count, consecutive,
                   rx_open, mirror>>
    /\ UNCHANGED notWs

\* read loop, a frame with order_id and status FILLED or MATCHED
WsFillFrame ==
    /\ wsPc = "reading"
    /\ Send("TradeFill", "reading")
    /\ lastDelta' = NoDelta
    /\ UNCHANGED <<ws_market, ws_tasks, reconnect_count, consecutive,
                   rx_open, mirror>>
    /\ UNCHANGED notWs

\* read loop, Close or a read error: the connection function returns
WsClosed ==
    /\ wsPc = "reading"
    /\ wsPc' = "count"
    /\ lastDelta' = NoDelta
    /\ UNCHANGED <<ws_market, ws_tasks, reconnect_count, consecutive,
                   ws_channel, ws_pending, rx_open, mirror>>
    /\ UNCHANGED notWs

\* count = fetch_add(1); if count > 10 the counter is stored 0 and the task
\* sleeps 30 s
WsCount ==
    /\ wsPc = "count"
    /\ consecutive' = IF consecutive < ConsecutiveCap THEN consecutive + 1
                      ELSE consecutive
    /\ IF reconnect_count > ReconnectLimit
       THEN /\ reconnect_count' = 0
            /\ wsPc' = "backoff30"
       ELSE /\ reconnect_count' = reconnect_count + 1
            /\ wsPc' = "disconnected"
    /\ UNCHANGED <<ws_market, ws_tasks, ws_channel, ws_pending, rx_open,
                   mirror, lastDelta>>
    /\ UNCHANGED notWs

WsBackoff ==
    /\ wsPc = "backoff30"
    /\ wsPc' = "disconnected"
    /\ UNCHANGED <<ws_market, ws_tasks, reconnect_count, consecutive,
                   ws_channel, ws_pending, rx_open, mirror, lastDelta>>
    /\ UNCHANGED notWs

\* tx.send(WsEvent::Disconnected).await
WsSendDisconnected ==
    /\ wsPc = "disconnected"
    /\ Send("Disconnected", "delay500")
    /\ UNCHANGED <<ws_market, ws_tasks, reconnect_count, consecutive,
                   rx_open, mirror, lastDelta>>
    /\ UNCHANGED notWs

\* the 500 ms delay before the next connection
WsDelay ==
    /\ wsPc = "delay500"
    /\ wsPc' = "connecting"
    /\ UNCHANGED <<ws_market, ws_tasks, reconnect_count, consecutive,
                   ws_channel, ws_pending, rx_open, mirror, lastDelta>>
    /\ UNCHANGED notWs

\* a suspended send completes: the consumer made room, or the receiver was
\* dropped and the send returns an error
WsSendResume ==
    /\ wsPc = "send_suspended"
    /\ ~rx_open \/ Len(ws_channel) < ChannelCapacity
    /\ ws_channel' = IF rx_open THEN Append(ws_channel, ws_pending.event)
                     ELSE ws_channel
    /\ wsPc' = ws_pending.resume
    /\ ws_pending' = NoPending
    /\ UNCHANGED <<ws_market, ws_tasks, reconnect_count, consecutive,
                   rx_open, mirror, lastDelta>>
    /\ UNCHANGED notWs

WsTask == WsConnect \/ WsBookFrame \/ WsPriceChangeFrame \/ WsFillFrame
          \/ WsClosed \/ WsCount \/ WsBackoff \/ WsSendDisconnected
          \/ WsDelay \/ WsSendResume

WsNext == WsSpawn \/ WsSessionOver \/ WsRecv \/ WsTask

(***************************************************************************)
(* Order-flow listener and signal generator: process_order_filled with     *)
(* save_trade on orderflow_trades, and check_for_new_signals with          *)
(* check_for_panic_sells on orderflow_signals.  Tables are bags of rows;   *)
(* time is in ticks of FlowTickSecs seconds; scores are in tenths.         *)
(***************************************************************************)
min_whale_score == 70
max_fade_score == 30
WhaleWindowSecs == 10
PanicWindowSecs == 30
PanicThreshold == 5
NoMarket == 0

OrderHashes == 1..MaxOrderHashes
FlowAssets == {1, 2}

\* orderflow_wallet_stats, one row per wallet_address (upserted by the
\* reputation calculator)
reputation_score ==
    [w \in {"0xwhale", "0xavg", "0xdegenA", "0xdegenB"} |->
        CASE w = "0xwhale" -> 90
          [] w = "0xavg" -> 50
          [] w = "0xdegenA" -> 10
          [] OTHER -> 30]

\* the OrderFilled event of an order: the order fixes its maker and its
\* assets; odd orders are taken by the whale, even ones by an average wallet
OrderFilled(h) ==
    [order_hash |-> h,
     maker |-> IF h % 3 = 0 THEN "0xdegenB" ELSE "0xdegenA",
     taker |-> IF h % 2 = 1 THEN "0xwhale" ELSE "0xavg",
     maker_asset_id |-> IF h <= 3 THEN 1 ELSE 2,
     taker_asset_id |-> IF h <= 3 THEN 1 ELSE 2]

\* an order can be filled in parts: the amounts the fills of an order come
\* in (the first order of the model is the one filled in two parts)
FillAmounts(h) == IF h = 1 THEN {1, 2} ELSE {1}

\* the OrderFilled event of a fill of `amount` of an order
OrderFilledOf(h, amount) ==
    OrderFilled(h) @@ [maker_amount_filled |-> amount,
                       taker_amount_filled |-> amount]

\* "0x" + hex(sha256(hex(order_hash) + "_maker_"/"_taker_" + address)): the
\* digest is kept as the composition it is taken of
TxHash(order_hash, role, address) == <<order_hash, role, address>>

\* Trade::new: market_id is String::new(), outcome is None
TradeNew(tx_hash, timestamp, wallet_address, is_maker) ==
    [tx_hash |-> tx_hash, timestamp |-> timestamp,
     wallet_address |-> wallet_address, is_maker |-> is_maker,
     market_id |-> NoMarket, token_id |-> 0, side |-> "", size |-> 0]

MakerTrade(event, timestamp) ==
    [TradeNew(TxHash(event.order_hash, "maker", event.maker), timestamp,
              event.maker, TRUE)
     EXCEPT !.token_id = event.maker_asset_id, !.side = "SELL",
            !.size = event.maker_amount_filled]

TakerTrade(event, timestamp) ==
    [TradeNew(TxHash(event.order_hash, "taker", event.taker), timestamp,
              event.taker, FALSE)
     EXCEPT !.token_id = event.taker_asset_id, !.side = "BUY",
            !.size = event.taker_amount_filled]

\* INSERT INTO orderflow_trades ... with no conflict clause
InsertTrade(rows, trade) == rows (+) SetToBag({trade})

\* save_trade: INSERT ... ON CONFLICT (tx_hash) DO NOTHING
SaveTrade(rows, trade) ==
    IF \E r \in BagToSet(rows) : r.tx_hash = trade.tx_hash
    THEN rows
    ELSE InsertTrade(rows, trade)

\* the rows of a table that are not one of the two rows derived of an event
RowsWithout(rows, event) ==
    LET keep == {r \in BagToSet(rows) :
                   /\ r.tx_hash # TxHash(event.order_hash, "maker", event.maker)
                   /\ r.tx_hash # TxHash(event.order_hash, "taker", event.taker)}
    IN  [r \in keep |-> rows[r]]

NoIngest == [order_hash |-> 0, amount |-> 0, result |-> "none", existed |-> 0,
             inserted |-> 0]
NoCycle == [result |-> "none", follow |-> {}, fade |-> {}, redelivered |-> 0]

FlowInit ==
    /\ orderflow_trades = EmptyBag
    /\ orderflow_signals = EmptyBag
    /\ flowNow = 0
    /\ enable_whale_following \in BOOLEAN
    /\ enable_degen_fading \in BOOLEAN
    /\ lastIngest = NoIngest
    /\ lastCycle = NoCycle

FlowQuiet ==
    /\ orderflow_trades = EmptyBag
    /\ orderflow_signals = EmptyBag
    /\ flowNow = 0
    /\ enable_whale_following = TRUE
    /\ enable_degen_fading = FALSE
    /\ lastIngest = NoIngest
    /\ lastCycle = NoCycle

\* process_order_filled: both rows carry Utc::now(); the maker row is saved
\* first, and an error of save_trade ends the handler (db = "err": the store
\* is down and the first save fails)
ProcessOrderFilled(h, amount, db) ==
    LET event == OrderFilledOf(h, amount)
        withMaker == SaveTrade(orderflow_trades, MakerTrade(event, flowNow))
        withBoth == SaveTrade(withMaker, TakerTrade(event, flowNow))
    IN  /\ orderflow_trades' = IF db = "err" THEN orderflow_trades ELSE withBoth
        /\ lastIngest' =
              [order_hash |-> h, amount |-> amount, result |-> db,
               existed |-> BagCardinality(orderflow_trades)
                           - BagCardinality(RowsWithout(orderflow_trades, event)),
               inserted |-> BagCardinality(orderflow_trades')
                            - BagCardinality(orderflow_trades)]
        /\ lastCycle' = NoCycle
        /\ UNCHANGED <<orderflow_signals, flowNow, enable_whale_following,
                       enable_degen_fading>>
        /\ UNCHANGED notFlow

InWindow(trade, secs) ==
    trade.timestamp * FlowTickSecs > flowNow * FlowTickSecs - secs

\* NOT EXISTS (SELECT 1 FROM orderflow_signals s
\*             WHERE s.trigger_tx_hash = t.tx_hash)
NotSignalledOff(trade) == TRUE

NotSignalled(trade) ==
    ~ \E s \in BagToSet(orderflow_signals) : s.trigger_tx_hash = trade.tx_hash

\* the rows of the query of check_for_new_signals
RecentWhaleTrades ==
    {t \in BagToSet(orderflow_trades) :
        /\ t.wallet_address \in DOMAIN reputation_score
        /\ InWindow(t, WhaleWindowSecs)
        /\ reputation_score[t.wallet_address] >= min_whale_score
        /\ NotSignalled(t)}

\* the loop body: nothing unless enable_whale_following, BUY rows only
FollowCandidates ==
    IF enable_whale_following
    THEN {t \in RecentWhaleTrades : t.side = "BUY"}
    ELSE {}

FollowSignal(trade) ==
    [signal_type |-> "FOLLOW_WHALE", trigger_tx_hash |-> trade.tx_hash,
     trigger_wallet |-> trade.wallet_address, market_id |-> trade.market_id]

\* the rows the query of check_for_panic_sells counts
PanicSells ==
    {t \in BagToSet(orderflow_trades) :
        /\ t.wallet_address \in DOMAIN reputation_score
        /\ InWindow(t, PanicWindowSecs)
        /\ t.side = "SELL"
        /\ reputation_score[t.wallet_address] <= max_fade_score}

CountRows(rows) ==
    LET RECURSIVE Sum(_)
        Sum(S) == IF S = {} THEN 0
                  ELSE LET r == CHOOSE x \in S : TRUE
                       IN  CopiesIn(r, orderflow_trades) + Sum(S \ {r})
    IN  Sum(rows)

\* GROUP BY t.market_id, t.outcome HAVING COUNT(*) >= 5; outcome is NULL in
\* every row the listener writes
PanicMarkets ==
    {m \in {t.market_id : t \in PanicSells} :
        CountRows({t \in PanicSells : t.market_id = m}) >= PanicThreshold}

\* the literal "PANIC_SELL" in the column of the digests
PanicSell == <<0, "PANIC_SELL", "">>

FadeSignal(market_id) ==
    [signal_type |-> "FADE_DEGEN", trigger_tx_hash |-> PanicSell,
     trigger_wallet |-> "MULTIPLE_DEGENS", market_id |-> market_id]

\* create_signal: a plain INSERT INTO orderflow_signals
CreateSignals(table, sigs) == table (+) SetToBag(sigs)

\* the order whose event the step before delivered again, finding both of its
\* rows stored (0: none)
Redelivered ==
    IF lastIngest.result = "ok" /\ lastIngest.inserted = 0
    THEN lastIngest.order_hash ELSE 0

\* One cycle of the executor's main loop, check_for_new_signals: `done` are
\* the candidates whose create_signal succeeded before an error ended the
\* cycle (the candidates all carry the same timestamp, so any of them can
\* come first); the panic check runs after the loop when fading is enabled
GenCycle(query_ok, done, panic_ok) ==
    LET fade == IF enable_degen_fading /\ panic_ok
                THEN {FadeSignal(m) : m \in PanicMarkets} ELSE {}
        follow == {FollowSignal(t) : t \in done}
        complete == query_ok /\ done = FollowCandidates
        result == CASE ~query_ok -> "err"
                    [] done # FollowCandidates -> "err"
                    [] enable_degen_fading /\ ~panic_ok -> "err"
                    [] OTHER -> "ok"
    IN  /\ done \subseteq FollowCandidates
        /\ ~query_ok => done = {}
        /\ BagCardinality(orderflow_signals)
              + Cardinality(FollowCandidates)
              + Cardinality(PanicMarkets) <= MaxFlowSignals
        /\ orderflow_signals' =
              IF ~query_ok THEN orderflow_signals
              ELSE CreateSignals(orderflow_signals,
                                 follow \cup IF complete THEN fade ELSE {})
        /\ lastCycle' = [result |-> result,
                         follow |-> IF query_ok THEN follow ELSE {},
                         fade |-> IF complete THEN fade ELSE {},
                         redelivered |-> Redelivered]
        /\ lastIngest' = NoIngest
        /\ UNCHANGED <<orderflow_trades, flowNow, enable_whale_following,
                       enable_degen_fading>>
        /\ UNCHANGED notFlow

FlowClock ==
    /\ flowNow < MaxFlowNow
    /\ flowNow' = flowNow + 1
    /\ lastIngest' = NoIngest
    /\ lastCycle' = NoCycle
    /\ UNCHANGED <<orderflow_trades, orderflow_signals,
                   enable_whale_following, enable_degen_fading>>
    /\ UNCHANGED notFlow

FlowListener ==
    \E h \in OrderHashes, db \in {"ok", "err"} :
        \E amount \in FillAmounts(h) : ProcessOrderFilled(h, amount, db)

FlowGenerator ==
    \E query_ok \in BOOLEAN, panic_ok \in BOOLEAN,
       done \in SUBSET FollowCandidates :
        GenCycle(query_ok, done, panic_ok)

FlowNext == FlowListener \/ FlowGenerator \/ FlowClock

(***************************************************************************)
(* Order creation of the directional ladder: the price of a level,         *)
(* create_and_submit_order, OrderSigner::create_order and the submission.  *)
(* Prices and tick sizes are in cents.                                     *)
(***************************************************************************)
\* BtcMarket.tick_size as the market reports it
TickSizes == {1, 10}
\* best asks of the chosen side that pass the max_entry_price guard
LadderBestAsks == {3, 75}
NoCandidate == [raw |-> 0, price |-> 0, tick_size |-> 0]

SignInit ==
    /\ market_tick_size \in TickSizes
    /\ order_candidate = NoCandidate
    /\ signPc = "ladder"
    /\ signed_orders = {}
    /\ submitted_orders = {}

SignQuiet ==
    /\ market_tick_size = 1
    /\ order_candidate = NoCandidate
    /\ signPc = "ladder"
    /\ signed_orders = {}
    /\ submitted_orders = {}

\* the for loop of the ladder: the price of a level, floored at 0.01, goes to
\* create_and_submit_order with market.tick_size
LadderLevel(ask, level) ==
    /\ signPc = "ladder"
    /\ order_candidate' =
          [raw |-> ask - limit_offset - ladder_spacing * level,
           price |-> LevelPrice(ask, level),
           tick_size |-> market_tick_size]
    /\ signPc' = "create_order"
    /\ UNCHANGED <<market_tick_size, signed_orders, submitted_orders>>
    /\ UNCHANGED notSign

\* OrderSigner::create_order: the amounts are size * price and size, whatever
\* the price; tick_size is not read; the only error is a failed signature
CreateOrder(sign_ok) ==
    /\ signPc = "create_order"
    /\ Cardinality(signed_orders \cup {order_candidate}) <= MaxSignedOrders
    /\ IF sign_ok
       THEN /\ signed_orders' = signed_orders \cup {order_candidate}
            /\ signPc' = "post_order"
            /\ UNCHANGED order_candidate
       ELSE /\ signPc' = "ladder"
            /\ order_candidate' = NoCandidate
            /\ UNCHANGED signed_orders
    /\ UNCHANGED <<market_tick_size, submitted_orders>>
    /\ UNCHANGED notSign

\* create_and_submit_order: clob.post_order(&order), Ok or Err
SubmitOrder(post_ok) ==
    /\ signPc = "post_order"
    /\ submitted_orders' = IF post_ok
                           THEN submitted_orders \cup {order_candidate}
                           ELSE submitted_orders
    /\ order_candidate' = NoCandidate
    /\ signPc' = "ladder"
    /\ UNCHANGED <<market_tick_size, signed_orders>>
    /\ UNCHANGED notSign

SignLadder ==
    \E ask \in LadderBestAsks, level \in 0..(DirLevels - 1) :
        LadderLevel(ask, level)
SignCreate == \E sign_ok \in BOOLEAN : CreateOrder(sign_ok)
SignSubmit == \E post_ok \in BOOLEAN : SubmitOrder(post_ok)

SignNext == SignLadder \/ SignCreate \/ SignSubmit

\* ---------------------------------------------------------------------
\* Pre-signed order caches: PreSignCache (presign.rs), which main() fills
\* when a market is found, and PresignedCache (presigned_cache.rs), whose
\* entries carry a creation instant and a time to live.
\* ---------------------------------------------------------------------

\* PresignedCache::new: cache_ttl = Duration::from_secs(300)
cache_ttl == 300

\* a market session lasts 900 s (market.rs: end = window start + 900)
SessionSecs == 900

\* price keys of the pre-signed grid (35..=65 cents): its two ends
PresignPrices == {35, 65}

NoCachedOrder == [cache |-> "none", key |-> 0, found |-> FALSE]

PresignInit ==
    /\ presignNow = 0
    /\ presign_cache = {}
    /\ presigned_cache = {}
    /\ lastGet = NoCachedOrder

PresignQuiet == PresignInit

\* cached.created_at.elapsed() < self.cache_ttl
CacheValid(cached) == presignNow - cached.created_at < cache_ttl

CachedAt(key) == {c \in presigned_cache : c.key = key}

\* PresignedCache::get_order: Some(order) only for an entry still valid
get_order(key) == \E c \in CachedAt(key) : CacheValid(c)

\* PresignedCache::warm_cache: signs every key that is not cached and
\* valid; a failed signing leaves the key as it was
warm_cache(failed) ==
    LET todo == {k \in PresignPrices : ~get_order(k) /\ k \notin failed}
    IN  /\ todo # {}
        /\ presigned_cache' =
               {c \in presigned_cache : c.key \notin todo}
               \cup {[key |-> k, created_at |-> presignNow] : k \in todo}
        /\ UNCHANGED <<presignNow, presign_cache, lastGet>>

\* PresignedCache::cleanup: retain the entries still valid
cleanup ==
    /\ presigned_cache' = {c \in presigned_cache : CacheValid(c)}
    /\ presigned_cache' # presigned_cache
    /\ UNCHANGED <<presignNow, presign_cache, lastGet>>

PresignedLookup(key) ==
    /\ lastGet' = [cache |-> "presigned_cache", key |-> key,
                   found |-> get_order(key)]
    /\ UNCHANGED <<presignNow, presign_cache, presigned_cache>>

\* PreSignCache::presign_market: signs the whole grid; an error of the
\* signer aborts it after the keys signed so far
presign_market(signed) ==
    /\ presign_cache' = presign_cache \cup signed
    /\ presign_cache' # presign_cache
    /\ UNCHANGED <<presignNow, presigned_cache, lastGet>>

\* PreSignCache::needs_refresh: always false
needs_refresh == FALSE

\* PreSignCache::get_order: a clone of the entry or None
PreSignLookup(key) ==
    /\ lastGet' = [cache |-> "presign", key |-> key,
                   found |-> key \in presign_cache]
    /\ UNCHANGED <<presignNow, presign_cache, presigned_cache>>

\* PreSignCache::clear
PreSignClear ==
    /\ presign_cache # {}
    /\ ~needs_refresh
    /\ presign_cache' = {}
    /\ UNCHANGED <<presignNow, presigned_cache, lastGet>>

PresignClock ==
    /\ presignNow + PresignTickSecs <= MaxPresignNow
    /\ presignNow' = presignNow + PresignTickSecs
    /\ UNCHANGED <<presign_cache, presigned_cache, lastGet>>

PresignWarm == \E failed \in SUBSET PresignPrices :
    warm_cache(failed) /\ UNCHANGED notPresign
PresignCleanup == cleanup /\ UNCHANGED notPresign
PresignGet == \E k \in PresignPrices :
    PresignedLookup(k) /\ UNCHANGED notPresign
PresignMarket == \E signed \in SUBSET PresignPrices :
    presign_market(signed) /\ UNCHANGED notPresign
PresignGetOrder == \E k \in PresignPrices :
    PreSignLookup(k) /\ UNCHANGED notPresign
PresignClear == PreSignClear /\ UNCHANGED notPresign
PresignTick == PresignClock /\ UNCHANGED notPresign

PresignNext ==
    \/ PresignWarm
    \/ PresignCleanup
    \/ PresignGet
    \/ PresignMarket
    \/ PresignGetOrder
    \/ PresignClear
    \/ PresignTick

\* ---------------------------------------------------------------------
\* Multi-strategy simulator (multi_strategy.rs): the virtual position of
\* one strategy on the UP outcome; the DOWN outcome runs the same code
\* on down_best_ask and down_best_bid.  An Option is a set of at most
\* one value.  Prices are in cents.
\* ---------------------------------------------------------------------

\* unwrap_or(dec!(0.50)) of process_signal
DefaultFillPrice == 50

MultiPrices == {48, 50, 52}

OptionOf(S) == {{}} \cup {{x} : x \in S}

\* MarketState as a caller may pass it: a bid below the ask when the
\* book has both sides
MarketStates ==
    {s \in [up_best_bid : OptionOf(MultiPrices),
            up_best_ask : OptionOf(MultiPrices)] :
        \A b \in s.up_best_bid : \A a \in s.up_best_ask : b < a}

StrategyOrders == [side : {"BUY", "SELL"}, price : MultiPrices]

\* StrategySignal
StrategySignals ==
    {[kind |-> "PlaceOrders", orders |-> os] :
        os \in UNION {[1..n -> StrategyOrders] : n \in 1..MaxSignalOrders}}
    \cup {[kind |-> k, orders |-> <<>>] :
        k \in {"CancelAll", "ExitPosition", "Hold"}}

MultiInit ==
    /\ pending_orders = <<>>
    /\ virtual_shares = 0
    /\ lastFills = {}

MultiQuiet == MultiInit

\* the side of the book an order is matched against
BookSide(ord, mstate) ==
    IF ord.side = "BUY" THEN mstate.up_best_ask ELSE mstate.up_best_bid

UnwrapOr(opt, default) == IF opt = {} THEN default ELSE CHOOSE x \in opt : TRUE

WouldFill(ord, price) ==
    IF ord.side = "BUY" THEN ord.price >= price ELSE ord.price <= price

\* VirtualPosition::process_fill, shares only (every order has size 1)
process_fill(shares, side) == IF side = "BUY" THEN shares + 1 ELSE shares - 1

FillOf(ord, price, mstate, path) ==
    [side |-> ord.side, limit |-> ord.price, fill_price |-> price,
     ask |-> mstate.up_best_ask, bid |-> mstate.up_best_bid, path |-> path]

\* simulate_fills: a pending order fills when its side of the book is
\* Some(price) and the limit crosses it
PendingFills(ord, mstate) ==
    /\ BookSide(ord, mstate) # {}
    /\ WouldFill(ord, UnwrapOr(BookSide(ord, mstate), 0))

RECURSIVE FillAll(_, _)
FillAll(shares, ords) ==
    IF ords = <<>> THEN shares
    ELSE FillAll(process_fill(shares, Head(ords).side), Tail(ords))

simulate_fills(vp, mstate) ==
    LET filled == SelectSeq(vp.pending, LAMBDA o : PendingFills(o, mstate))
    IN  [pending |-> SelectSeq(vp.pending,
                               LAMBDA o : ~PendingFills(o, mstate)),
         shares  |-> FillAll(vp.shares, filled),
         fills   |-> vp.fills \cup
                     {FillOf(filled[i],
                             UnwrapOr(BookSide(filled[i], mstate), 0),
                             mstate, "pending") : i \in DOMAIN filled}]

\* process_signal, PlaceOrders: the order fills at once against
\* unwrap_or(0.50) of its side of the book
ImmediateFill(ord, mstate) ==
    WouldFill(ord, UnwrapOr(BookSide(ord, mstate), DefaultFillPrice))

RECURSIVE PlaceOrders(_, _, _)
PlaceOrders(vp, ords, mstate) ==
    IF ords = <<>> THEN vp
    ELSE LET ord == Head(ords)
             fill_price == UnwrapOr(BookSide(ord, mstate), DefaultFillPrice)
             next == IF ImmediateFill(ord, mstate)
                     THEN [vp EXCEPT
                              !.shares = process_fill(@, ord.side),
                              !.fills = @ \cup {FillOf(ord, fill_price,
                                                       mstate, "immediate")}]
                     ELSE [vp EXCEPT !.pending = Append(@, ord)]
         IN  PlaceOrders(next, Tail(ords), mstate)

process_signal(vp, sig, mstate) ==
    CASE sig.kind = "PlaceOrders" -> PlaceOrders(vp, sig.orders, mstate)
      [] sig.kind = "CancelAll" -> [vp EXCEPT !.pending = <<>>]
      [] sig.kind = "ExitPosition" ->
            IF vp.shares > 0
            THEN [vp EXCEPT
                     !.shares = 0,
                     !.fills = @ \cup
                         {[side |-> "SELL", limit |-> 0,
                           fill_price |-> UnwrapOr(mstate.up_best_bid,
                                                   DefaultFillPrice),
                           ask |-> mstate.up_best_ask,
                           bid |-> mstate.up_best_bid, path |-> "exit"]}]
            ELSE vp
      [] OTHER -> vp

VirtualPosition == [pending |-> pending_orders, shares |-> virtual_shares,
                    fills |-> {}]

MultiCommit(vp) ==
    /\ Len(vp.pending) <= MaxPending
    /\ vp.shares \in -MaxVirtualShares..MaxVirtualShares
    /\ pending_orders' = vp.pending
    /\ virtual_shares' = vp.shares
    /\ lastFills' = vp.fills

\* on_market_start: reset the position, then process the signal
on_market_start(mstate, sig) ==
    MultiCommit(process_signal([pending |-> <<>>, shares |-> 0,
                                fills |-> {}], sig, mstate))

\* on_orderbook_update: simulate_fills, then process the signal
on_orderbook_update(mstate, sig) ==
    MultiCommit(process_signal(simulate_fills(VirtualPosition, mstate),
                               sig, mstate))

\* on_tick: process the signal
on_tick(mstate, sig) ==
    MultiCommit(process_signal(VirtualPosition, sig, mstate))

MultiMarketStart == \E mstate \in MarketStates, sig \in StrategySignals :
    on_market_start(mstate, sig) /\ UNCHANGED notMulti
MultiOrderbookUpdate == \E mstate \in MarketStates, sig \in StrategySignals :
    on_orderbook_update(mstate, sig) /\ UNCHANGED notMulti
MultiTick == \E mstate \in MarketStates, sig \in StrategySignals :
    on_tick(mstate, sig) /\ UNCHANGED notMulti

MultiNext ==
    \/ MultiMarketStart
    \/ MultiOrderbookUpdate
    \/ MultiTick

\* ---------------------------------------------------------------------
\* BTC price feed (btc_price.rs): BtcPriceState behind a parking_lot
\* RwLock, written by the Coinbase task and by the secondary task
\* (Binance, or Kraken when Binance fails), read and marked by the
\* session runner.  A writer claims the lock and then waits for the read
\* guards to be dropped; read() does not let a new reader in while a
\* writer has claimed the lock.
\* ---------------------------------------------------------------------
FeedPrices == {100, 101}

FeedTasks == {"coinbase", "secondary", "runner"}

NoOutcome == [called |-> FALSE, open |-> {}, now |-> 0, result |-> "None"]

FeedInit ==
    /\ current_price = 0
    /\ market_open_price = {}
    /\ price_history = <<>>
    /\ binance_price = {}
    /\ feed_connected = [coinbase |-> FALSE, secondary |-> FALSE]
    /\ rw_readers = 0
    /\ rw_writer = "none"
    /\ feedPc = [t \in FeedTasks |-> "idle"]
    /\ lastOutcome = NoOutcome

FeedQuiet == FeedInit

\* BtcPriceState::add_price: push, then drop the oldest above max_history
add_price(history, price) ==
    LET pushed == Append(history, price)
    IN  IF Len(pushed) > max_history THEN Tail(pushed) ELSE pushed

PredictedOutcomeAtOrAbove(open, now) ==
    IF open = {} THEN "None"
    ELSE IF now >= UnwrapOr(open, 0) THEN "UP" ELSE "DOWN"

\* BtcPriceFeed::get_predicted_outcome
get_predicted_outcome(open, now) ==
    IF open = {} THEN "None"
    ELSE IF now > UnwrapOr(open, 0) THEN "UP"
    ELSE IF now < UnwrapOr(open, 0) THEN "DOWN"
    ELSE "None"

\* state.write(): the task claims the write lock
FeedClaim(task, op) ==
    /\ feedPc[task] = "idle"
    /\ rw_writer = "none"
    /\ rw_writer' = task
    /\ feedPc' = [feedPc EXCEPT ![task] = op]
    /\ UNCHANGED <<current_price, market_open_price, price_history,
                   binance_price, feed_connected, rw_readers, lastOutcome>>

\* the write guard is granted once no read guard is held, and dropped
\* at the end of the statement
FeedGranted(task, op) ==
    /\ feedPc[task] = op
    /\ rw_writer = task
    /\ rw_readers = 0
    /\ rw_writer' = "none"
    /\ feedPc' = [feedPc EXCEPT ![task] = "idle"]
    /\ UNCHANGED <<rw_readers, lastOutcome>>

SecondaryWritesPrimary(price) ==
    /\ FeedGranted("secondary", "ticker")
    /\ current_price' = price
    /\ price_history' = add_price(price_history, price)
    /\ UNCHANGED <<market_open_price, binance_price, feed_connected>>

\* run_binance_ws_inner and run_kraken_ws, a ticker with a price
SecondaryTicker(price) ==
    /\ FeedGranted("secondary", "ticker")
    /\ binance_price' = {price}
    /\ UNCHANGED <<current_price, market_open_price, price_history,
                   feed_connected>>

\* run_binance_ws_inner and run_kraken_ws: binance_connected = true
\* after the connect, false after the read loop
SecondaryConnected(up) ==
    /\ FeedGranted("secondary", IF up THEN "connected" ELSE "closed")
    /\ feed_connected' = [feed_connected EXCEPT !.secondary = up]
    /\ UNCHANGED <<current_price, market_open_price, price_history,
                   binance_price>>

\* run_coinbase_ws, a ticker with a price
CoinbaseTicker(price) ==
    /\ FeedGranted("coinbase", "ticker")
    /\ current_price' = price
    /\ price_history' = add_price(price_history, price)
    /\ UNCHANGED <<market_open_price, binance_price, feed_connected>>

CoinbaseConnected(up) ==
    /\ FeedGranted("coinbase", IF up THEN "connected" ELSE "closed")
    /\ feed_connected' = [feed_connected EXCEPT !.coinbase = up]
    /\ UNCHANGED <<current_price, market_open_price, price_history,
                   binance_price>>

\* BtcPriceFeed::mark_market_open
mark_market_open ==
    /\ FeedGranted("runner", "mark_market_open")
    /\ market_open_price' = {current_price}
    /\ UNCHANGED <<current_price, price_history, binance_price,
                   feed_connected>>

\* BtcPriceFeed::clear_market_open
clear_market_open ==
    /\ FeedGranted("runner", "clear_market_open")
    /\ market_open_price' = {}
    /\ UNCHANGED <<current_price, price_history, binance_price,
                   feed_connected>>

\* state.read() of a task that holds no guard: granted unless a writer
\* has claimed the lock
ReadGranted == rw_writer = "none"

\* get_predicted_outcome called by the runner: one read guard, dropped
\* on return
PredictedOutcomeCall ==
    /\ feedPc["runner"] = "idle"
    /\ ReadGranted
    /\ lastOutcome' =
           [called |-> TRUE, open |-> market_open_price,
            now |-> current_price,
            result |-> get_predicted_outcome(market_open_price,
                                             current_price)]
    /\ UNCHANGED <<current_price, market_open_price, price_history,
                   binance_price, feed_connected, rw_readers, rw_writer,
                   feedPc>>

\* is_momentum_aligned: `let state = self.state.read()`
MomentumAlignedOuter ==
    /\ feedPc["runner"] = "idle"
    /\ ReadGranted
    /\ rw_readers' = rw_readers + 1
    /\ feedPc' = [feedPc EXCEPT !["runner"] = "is_momentum_aligned"]
    /\ UNCHANGED <<current_price, market_open_price, price_history,
                   binance_price, feed_connected, rw_writer, lastOutcome>>

\* is_momentum_aligned: `self.get_predicted_outcome()` reads the lock
\* again with the outer guard held; then both guards are dropped
MomentumAlignedInner ==
    /\ feedPc["runner"] = "is_momentum_aligned"
    /\ ReadGranted
    /\ rw_readers' = rw_readers - 1
    /\ feedPc' = [feedPc EXCEPT !["runner"] = "idle"]
    /\ UNCHANGED <<current_price, market_open_price, price_history,
                   binance_price, feed_connected, rw_writer, lastOutcome>>

FeedCoinbaseClaim ==
    \E op \in {"connected", "ticker", "closed"} :
        FeedClaim("coinbase", op) /\ UNCHANGED notFeed
FeedSecondaryClaim ==
    \E op \in {"connected", "ticker", "closed"} :
        FeedClaim("secondary", op) /\ UNCHANGED notFeed
FeedRunnerClaim ==
    \E op \in {"mark_market_open", "clear_market_open"} :
        FeedClaim("runner", op) /\ UNCHANGED notFeed
FeedCoinbaseTicker ==
    \E price \in FeedPrices : CoinbaseTicker(price) /\ UNCHANGED notFeed
FeedCoinbaseConnected ==
    \E up \in BOOLEAN : CoinbaseConnected(up) /\ UNCHANGED notFeed
FeedSecondaryTicker ==
    \E price \in FeedPrices : SecondaryTicker(price) /\ UNCHANGED notFeed
FeedSecondaryConnected ==
    \E up \in BOOLEAN : SecondaryConnected(up) /\ UNCHANGED notFeed
FeedMarkOpen == mark_market_open /\ UNCHANGED notFeed
FeedClearOpen == clear_market_open /\ UNCHANGED notFeed
FeedPredictedOutcome == PredictedOutcomeCall /\ UNCHANGED notFeed
FeedAlignedOuter == MomentumAlignedOuter /\ UNCHANGED notFeed
FeedAlignedInner == MomentumAlignedInner /\ UNCHANGED notFeed

FeedNext ==
    \/ FeedCoinbaseClaim
    \/ FeedSecondaryClaim
    \/ FeedRunnerClaim
    \/ FeedCoinbaseTicker
    \/ FeedCoinbaseConnected
    \/ FeedSecondaryTicker
    \/ FeedSecondaryConnected
    \/ FeedMarkOpen
    \/ FeedClearOpen
    \/ FeedPredictedOutcome
    \/ FeedAlignedOuter
    \/ FeedAlignedInner

\* ---------------------------------------------------------------------
\* CircuitBreaker (retry.rs): an atomic failure counter and the instant of
\* the last failure behind a parking_lot Mutex, used by a task that asks
\* is_open and by a task that records the outcomes of its operations.
\* ---------------------------------------------------------------------
BreakerTasks == {"caller", "worker"}

BreakerInit ==
    /\ failures = 0
    /\ last_failure = {}
    /\ last_failure_lock = "free"
    /\ breakerNow = 0
    /\ breakerPc = [t \in BreakerTasks |-> "idle"]
    /\ lastIsOpen = "none"

BreakerQuiet == BreakerInit

\* last.elapsed() > self.reset_timeout
ResetDue(last) == breakerNow - last > reset_timeout

\* is_open: the load of failures and the early return below the threshold
IsOpenLoad ==
    /\ breakerPc["caller"] = "idle"
    /\ IF failures < threshold
       THEN /\ lastIsOpen' = "false"
            /\ UNCHANGED breakerPc
       ELSE /\ breakerPc' = [breakerPc EXCEPT !["caller"] = "is_open"]
            /\ UNCHANGED lastIsOpen
    /\ UNCHANGED <<failures, last_failure, last_failure_lock, breakerNow>>

\* is_open: `if let Some(last) = *self.last_failure.lock()`; the guard is
\* a temporary of the condition and lives to the end of the if let, so
\* the body runs with the mutex held
IsOpenLock ==
    /\ breakerPc["caller"] = "is_open"
    /\ last_failure_lock = "free"
    /\ IF \E last \in last_failure : ResetDue(last)
       THEN /\ last_failure_lock' = "caller"
            /\ breakerPc' = [breakerPc EXCEPT !["caller"] = "reset"]
            /\ UNCHANGED lastIsOpen
       ELSE /\ lastIsOpen' = "true"
            /\ breakerPc' = [breakerPc EXCEPT !["caller"] = "idle"]
            /\ UNCHANGED last_failure_lock
    /\ UNCHANGED <<failures, last_failure, breakerNow>>

\* reset, called by is_open or by a task itself: failures.store(0)
ResetStore(task) ==
    /\ \/ breakerPc[task] = "reset"
       \/ task = "worker" /\ breakerPc[task] = "idle"
    /\ failures' = 0
    /\ breakerPc' = [breakerPc EXCEPT ![task] = "reset_lock"]
    /\ UNCHANGED <<last_failure, last_failure_lock, breakerNow, lastIsOpen>>

\* reset: `*self.last_failure.lock() = None`; the mutex is not reentrant.
\* is_open then drops its guard and returns false
ResetLock(task) ==
    /\ breakerPc[task] = "reset_lock"
    /\ last_failure_lock = "free"
    /\ last_failure' = {}
    /\ breakerPc' = [breakerPc EXCEPT ![task] = "idle"]
    /\ lastIsOpen' = IF task = "caller" THEN "false" ELSE lastIsOpen
    /\ UNCHANGED <<failures, last_failure_lock, breakerNow>>

\* record_failure: failures.fetch_add(1)
RecordFailureAdd ==
    /\ breakerPc["worker"] = "idle"
    /\ failures < MaxFailures
    /\ failures' = failures + 1
    /\ breakerPc' = [breakerPc EXCEPT !["worker"] = "record_failure"]
    /\ UNCHANGED <<last_failure, last_failure_lock, breakerNow, lastIsOpen>>

\* record_failure: `*self.last_failure.lock() = Some(Instant::now())`
RecordFailureLock ==
    /\ breakerPc["worker"] = "record_failure"
    /\ last_failure_lock = "free"
    /\ last_failure' = {breakerNow}
    /\ breakerPc' = [breakerPc EXCEPT !["worker"] = "idle"]
    /\ UNCHANGED <<failures, last_failure_lock, breakerNow, lastIsOpen>>

\* record_success: failures.store(0)
RecordSuccess ==
    /\ breakerPc["worker"] = "idle"
    /\ failures > 0
    /\ failures' = 0
    /\ UNCHANGED <<last_failure, last_failure_lock, breakerNow, breakerPc,
                   lastIsOpen>>

BreakerClock ==
    /\ breakerNow < MaxBreakerNow
    /\ breakerNow' = breakerNow + 1
    /\ UNCHANGED <<failures, last_failure, last_failure_lock, breakerPc,
                   lastIsOpen>>

BreakerIsOpenLoad == IsOpenLoad /\ UNCHANGED notBreaker
BreakerIsOpenLock == IsOpenLock /\ UNCHANGED notBreaker
BreakerResetStore ==
    \E task \in BreakerTasks : ResetStore(task) /\ UNCHANGED notBreaker
BreakerResetLock ==
    \E task \in BreakerTasks : ResetLock(task) /\ UNCHANGED notBreaker
BreakerRecordFailureAdd == RecordFailureAdd /\ UNCHANGED notBreaker
BreakerRecordFailureLock == RecordFailureLock /\ UNCHANGED notBreaker
BreakerRecordSuccess == RecordSuccess /\ UNCHANGED notBreaker
BreakerTick == BreakerClock /\ UNCHANGED notBreaker

BreakerNext ==
    \/ BreakerIsOpenLoad
    \/ BreakerIsOpenLock
    \/ BreakerResetStore
    \/ BreakerResetLock
    \/ BreakerRecordFailureAdd
    \/ BreakerRecordFailureLock
    \/ BreakerRecordSuccess
    \/ BreakerTick

ExecQuiet ==
    /\ signals = <<>>
    /\ open_positions = 0
    /\ enable_paper_trading = TRUE
    /\ execNow = 0
    /\ execPc = "idle"
    /\ pending_signals = <<>>
    /\ executed_count = 0
    /\ lastProcessed = NoneProcessed

ClobQuiet ==
    /\ proxy_client = FALSE
    /\ scrapeless_token = FALSE
    /\ lambda_proxy_url = FALSE
    /\ clobPc = "idle"
    /\ attempts = <<>>
    /\ postResult = NoResult

SessQuiet ==
    /\ sessPc = "discover"
    /\ alert = NoAlert
    /\ pm_lock = FALSE
    /\ dry_run = TRUE
    /\ alerts_enabled = FALSE
    /\ clockIdx = 1
    /\ exch_orders = {}
    /\ ladder_ids = NoIds
    /\ order_to_market = {}
    /\ positions = NoPosition
    /\ ws_rx = <<>>
    /\ should_rebalance = NoPosition
    /\ lastFill = NoFill
    /\ nextOrderId = 1
    /\ cancelCalls = 0
    /\ sessResult = "none"

DirQuiet ==
    /\ dirPc = "discover"
    /\ dirAlert = NoDirAlert
    /\ dir_dry_run = TRUE
    /\ dir_alerts_enabled = FALSE
    /\ dirClockIdx = 1
    /\ ticked = FALSE
    /\ reversal_tracker = NewReversalTracker
    /\ vol_samples = 0
    /\ has_entered = FALSE
    /\ skip_reason = "none"
    /\ dir_orders = {}
    /\ position_levels = {}
    /\ entry_price = NoEntryPrice
    /\ lastEntry = NoEntry

(***************************************************************************)
(* Specifications                                                          *)
(***************************************************************************)
InitExec ==
    /\ ExecInit
    /\ ClobQuiet
    /\ SessQuiet
    /\ DirQuiet
    /\ WsInit
    /\ LobInit
    /\ FlowQuiet
    /\ SignQuiet
    /\ PresignQuiet
    /\ MultiQuiet
    /\ FeedQuiet
    /\ BreakerQuiet
SpecExec == InitExec /\ [][ExecNext]_vars

InitClob ==
    /\ ClobInit
    /\ ExecQuiet
    /\ SessQuiet
    /\ DirQuiet
    /\ WsInit
    /\ LobInit
    /\ FlowQuiet
    /\ SignQuiet
    /\ PresignQuiet
    /\ MultiQuiet
    /\ FeedQuiet
    /\ BreakerQuiet
SpecClob == InitClob /\ [][ClobNext]_vars

InitSession ==
    /\ SessInit
    /\ ExecQuiet
    /\ ClobQuiet
    /\ DirQuiet
    /\ WsInit
    /\ LobInit
    /\ FlowQuiet
    /\ SignQuiet
    /\ PresignQuiet
    /\ MultiQuiet
    /\ FeedQuiet
    /\ BreakerQuiet
SpecSession == InitSession /\ [][SessNext]_vars

InitDir ==
    /\ DirInit
    /\ ExecQuiet
    /\ ClobQuiet
    /\ SessQuiet
    /\ WsInit
    /\ LobInit
    /\ FlowQuiet
    /\ SignQuiet
    /\ PresignQuiet
    /\ MultiQuiet
    /\ FeedQuiet
    /\ BreakerQuiet
SpecDir == InitDir /\ [][DirNext]_vars

InitWs ==
    /\ WsInit
    /\ ExecQuiet
    /\ ClobQuiet
    /\ SessQuiet
    /\ DirQuiet
    /\ LobInit
    /\ FlowQuiet
    /\ SignQuiet
    /\ PresignQuiet
    /\ MultiQuiet
    /\ FeedQuiet
    /\ BreakerQuiet
SpecWs == InitWs /\ [][WsNext]_vars

InitBook ==
    /\ LobInit
    /\ ExecQuiet
    /\ ClobQuiet
    /\ SessQuiet
    /\ DirQuiet
    /\ WsInit
    /\ FlowQuiet
    /\ SignQuiet
    /\ PresignQuiet
    /\ MultiQuiet
    /\ FeedQuiet
    /\ BreakerQuiet
SpecBook == InitBook /\ [][LobNext]_vars

InitFlow ==
    /\ FlowInit
    /\ ExecQuiet
    /\ ClobQuiet
    /\ SessQuiet
    /\ DirQuiet
    /\ WsInit
    /\ LobInit
    /\ SignQuiet
    /\ PresignQuiet
    /\ MultiQuiet
    /\ FeedQuiet
    /\ BreakerQuiet
SpecFlow == InitFlow /\ [][FlowNext]_vars

InitSign ==
    /\ SignInit
    /\ ExecQuiet
    /\ ClobQuiet
    /\ SessQuiet
    /\ DirQuiet
    /\ WsInit
    /\ LobInit
    /\ FlowQuiet
    /\ PresignQuiet
    /\ MultiQuiet
    /\ FeedQuiet
    /\ BreakerQuiet
SpecSign == InitSign /\ [][SignNext]_vars

InitPresign ==
    /\ PresignInit
    /\ ExecQuiet
    /\ ClobQuiet
    /\ SessQuiet
    /\ DirQuiet
    /\ WsInit
    /\ LobInit
    /\ FlowQuiet
    /\ SignQuiet
    /\ MultiQuiet
    /\ FeedQuiet
    /\ BreakerQuiet
SpecPresign == InitPresign /\ [][PresignNext]_vars

InitMulti ==
    /\ MultiInit
    /\ ExecQuiet
    /\ ClobQuiet
    /\ SessQuiet
    /\ DirQuiet
    /\ WsInit
    /\ LobInit
    /\ FlowQuiet
    /\ SignQuiet
    /\ PresignQuiet
    /\ FeedQuiet
    /\ BreakerQuiet
SpecMulti == InitMulti /\ [][MultiNext]_vars

InitFeed ==
    /\ FeedInit
    /\ ExecQuiet
    /\ ClobQuiet
    /\ SessQuiet
    /\ DirQuiet
    /\ WsInit
    /\ LobInit
    /\ FlowQuiet
    /\ SignQuiet
    /\ PresignQuiet
    /\ MultiQuiet
    /\ BreakerQuiet
SpecFeed == InitFeed /\ [][FeedNext]_vars

InitBreaker ==
    /\ BreakerInit
    /\ ExecQuiet
    /\ ClobQuiet
    /\ SessQuiet
    /\ DirQuiet
    /\ WsInit
    /\ LobInit
    /\ FlowQuiet
    /\ SignQuiet
    /\ PresignQuiet
    /\ MultiQuiet
    /\ FeedQuiet
SpecBreaker == InitBreaker /\ [][BreakerNext]_vars

Init ==
    /\ ExecInit
    /\ ClobInit
    /\ SessInit
    /\ DirInit
    /\ WsInit
    /\ LobInit
    /\ FlowInit
    /\ SignInit
    /\ PresignInit
    /\ MultiInit
    /\ FeedInit
    /\ BreakerInit
Next ==
    \/ ExecNext
    \/ ClobNext
    \/ SessNext
    \/ DirNext
    \/ WsNext
    \/ LobNext
    \/ FlowNext
    \/ SignNext
    \/ PresignNext
    \/ MultiNext
    \/ FeedNext
    \/ BreakerNext
Spec == Init /\ [][Next]_vars

(***************************************************************************)
(* Claims                                                                  *)
(***************************************************************************)

\* C2: every signal the executor has taken from its batch and processed has
\* left PENDING for EXECUTED or SKIPPED, in paper mode and in live mode alike
\* (the transition was made from PENDING).
C2_ProcessedSignalTransitioned ==
    lastProcessed.id # NoSignal =>
        /\ lastProcessed.statusBefore = "PENDING"
        /\ signals[lastProcessed.id].status \in {"EXECUTED", "SKIPPED"}

PathRank(path) ==
    CASE path = "proxy" -> 1
      [] path = "scrapeless" -> 2
      [] path = "lambda" -> 3
      [] path = "direct" -> 3

PathConfigured(path) ==
    CASE path = "proxy" -> proxy_client
      [] path = "scrapeless" -> scrapeless_token
      [] path = "lambda" -> lambda_proxy_url
      [] path = "direct" -> ~lambda_proxy_url

\* C7: the attempts of one post_order call are in strict priority order
\* (proxy, unblocker, terminal); a path is attempted only when configured and
\* after every earlier configured path was attempted and failed; a successful
\* attempt is the last one and its response is what post_order returns.
C7_StrictPriority ==
    /\ \A i \in 1..Len(attempts) :
          /\ PathConfigured(attempts[i].path)
          /\ \A j \in 1..Len(attempts) :
                i < j => /\ PathRank(attempts[i].path) < PathRank(attempts[j].path)
                         /\ attempts[i].outcome.kind = "Err"
          /\ \A q \in {"proxy", "scrapeless"} :
                (PathConfigured(q) /\ PathRank(q) < PathRank(attempts[i].path))
                  => \E j \in 1..(i - 1) : /\ attempts[j].path = q
                                           /\ attempts[j].outcome.kind = "Err"
          /\ attempts[i].outcome.kind = "Ok" =>
                /\ i = Len(attempts)
                /\ clobPc = "done"
                /\ postResult = attempts[i].outcome

C7_Witness ==
    /\ clobPc = "done"
    /\ Len(attempts) = 2
    /\ attempts[1].path = "proxy"
    /\ attempts[1].outcome.kind = "Err"
    /\ attempts[2].path = "scrapeless"
    /\ attempts[2].outcome.kind = "Ok"
    /\ postResult = attempts[2].outcome

\* the exchange answered this attempt with an Unauthorized error
ReportsUnauthorized(a) ==
    /\ a.resp.sent
    /\ a.resp.parsed
    /\ a.resp.error = "Unauthorized"

\* C8: an attempt the exchange answered with Unauthorized is the last attempt
\* of the call, and the call returns that error.
C8_AuthErrorAborts ==
    \A i \in 1..Len(attempts) :
        ReportsUnauthorized(attempts[i]) =>
            /\ i = Len(attempts)
            /\ clobPc = "done" => postResult = attempts[i].outcome
            /\ attempts[i].outcome.kind = "Err"

\* the terminal path answered and the answer carries a non-success status
TerminalNonSuccess(a) ==
    /\ a.path \in {"lambda", "direct"}
    /\ a.resp.sent
    /\ a.resp.parsed
    /\ \/ ~IsSuccess(a.resp.status)
       \/ a.path = "lambda" /\ a.resp.statusCode >= 400

\* C9: when post_order has returned, a non-success answer of the terminal
\* path has produced an error that carries the payload, so Ok is returned
\* only on success.
C9_TerminalFailureIsError ==
    (clobPc = "done" /\ attempts # <<>>
       /\ TerminalNonSuccess(attempts[Len(attempts)])) =>
        /\ postResult.kind = "Err"
        /\ postResult.payload.from # "none"
        /\ postResult.payload.resp = attempts[Len(attempts)].resp

\* C1: the position_manager mutex is never held while the runner is
\* suspended on outbound I/O (here: an alert request in flight).
C1_NoLockAcrossSuspension ==
    ~(pm_lock /\ sessPc = "await_alert")

\* the position after adding a fill to the side of the filled token
FillApplied(pos, fill) ==
    IF fill.asset_id = "UP"
    THEN [pos EXCEPT !.up_shares = @ + fill.size,
                     !.up_cost = @ + fill.price * fill.size]
    ELSE [pos EXCEPT !.down_shares = @ + fill.size,
                     !.down_cost = @ + fill.price * fill.size]

\* C5: for every fill the runner received, the position of the market gained
\* size shares and price * size cost on the side of the filled token, and the
\* other side was left unchanged.
C5_EveryFillApplied ==
    lastFill.seen => lastFill.after = FillApplied(lastFill.before, lastFill.fill)

\* run_market_session has returned Err and the loop has not yet come back to
\* wait_for_next_market
AfterFailedSession ==
    /\ sessResult = "Err"
    /\ \/ sessPc \in {"session_end", "sleep5"}
       \/ sessPc = "await_alert" /\ alert.resume = "sleep5"

\* C10: after a failed session the runner always goes on towards market
\* discovery: it is never left without a next step (its own, or the answer it
\* is waiting for), so it cannot stay for ever short of discovering the next
\* market.
C10_FailedSessionGoesOn ==
    AfterFailedSession => ENABLED (SessRunner \/ AlertAnswer)

\* the session has left its monitor loop (pre-resolution has passed)
DirAfterLoop ==
    \/ dirPc \in {"summary", "resolution", "wait_resolution", "sleep5"}
    \/ dirPc = "await_alert" /\ dirAlert.resume = "resolution"

\* C4: once a session has gone through pre-resolution, no order of its
\* market is left resting on the exchange: every order the session placed
\* and that was not filled has been cancelled.
C4_NoRestingOrderAfterPreResolution ==
    DirAfterLoop => dir_orders = {}

\* C6: on a tick that submitted the entry ladder every guard held: the
\* minute was within [entry_minute_min, entry_minute_max], there were fewer
\* than 2 reversals and at least 3 consecutive same-direction readings, the
\* volatility was within [0.01, 0.5], the momentum was aligned when the
\* minute was below 10, the size band was non-zero and the best ask of the
\* chosen side was at most max_entry_price.
C6_EntryOnlyIfAllGuardsHold ==
    lastEntry.seen =>
        /\ lastEntry.ms_to_end <= entry_minute_min_secs * 1000
        /\ lastEntry.ms_to_end >= entry_minute_max_secs * 1000
        /\ lastEntry.reversal_count < 2
        /\ lastEntry.consecutive_same >= 3
        /\ lastEntry.volatility = "ok"
        /\ (lastEntry.ms_to_end > momentum_bypass_secs * 1000
               => lastEntry.momentum_aligned)
        /\ lastEntry.sized
        /\ lastEntry.best_ask <= max_entry_price

\* C11: at any time at most one market-data WebSocket task runs: once the
\* next market's task is running, the previous market's task has stopped
C11_AtMostOneWsTask == Cardinality(ws_tasks) <= 1

\* C12: when the event channel is saturated the producer drops the frame and
\* keeps reading: its send never waits for the consumer
C12_SaturatedProducerKeepsReading ==
    rx_open /\ Len(ws_channel) = ChannelCapacity => wsPc # "send_suspended"

\* C13: the task sleeps 30 s before retrying only after 10 consecutive
\* reconnects, a successful connection ending the run of consecutive
\* reconnects; otherwise it retries after the small fixed delay
C13_BackoffAfterTenConsecutive ==
    wsPc = "backoff30" => consecutive >= ReconnectLimit

\* C14: an alert never blocks a trading operation: while the alert endpoint
\* does not answer, the session runner still has a step to take
C14_AlertNeverBlocks ==
    sessPc = "await_alert" /\ alert.fate = "hung" => ENABLED SessRunner

\* a step of the directional loop that runs the entry check on a tick
DirTickStep == ~ticked /\ ticked'

C16_ChoppyExcludesConsistent ==
    IsChoppy(reversal_tracker) => ~IsTrendConsistent(reversal_tracker)

\* C17: pre-resolution is triggered when the clock reaches end_time - 1 min,
\* not earlier: the monitor loop is left with at most one minute to go
C17_PreResolutionNotBeforeLastMinute ==
    sessPc = "summary" => SecsToEnd * 1000 <= DirCancelMarginMs

\* C18: after a session the runner returns to market discovery only once
\* end_time + 30 s of that market has passed
C18_DiscoveryAfterResolutionGrace ==
    sessPc = "sleep5" => SecsToEnd <= -ResolutionGraceSecs

\* C19: every price-change frame is applied to the mirror per level, a size
\* of 0 removing the level
C19_DeltaAppliedToMirror ==
    lastDelta.seen =>
        lastDelta.after = UpdateLevel(lastDelta.before, lastDelta.frame.is_bid,
                                      lastDelta.frame.price,
                                      lastDelta.frame.size)

\* C20: for every LocalOrderbook reached by snapshots and level updates,
\* best_bid() <= best_ask() whenever both exist
C20_BestBidNotAboveBestAsk ==
    best_bid(lob) # NoPrice /\ best_ask(lob) # NoPrice
        => best_bid(lob) <= best_ask(lob)

\* ---- order-flow listener and signal generator --------------------------

\* the copies of the rows of orderflow_trades with a tx_hash
TradeRows(tx_hash) ==
    CountRows({t \in BagToSet(orderflow_trades) : t.tx_hash = tx_hash})

\* the FOLLOW_WHALE rows of orderflow_signals triggered by a tx_hash
FollowSignals(tx_hash) ==
    LET S == {s \in BagToSet(orderflow_signals) :
                 s.signal_type = "FOLLOW_WHALE" /\ s.trigger_tx_hash = tx_hash}
        RECURSIVE Sum(_)
        Sum(T) == IF T = {} THEN 0
                  ELSE LET s == CHOOSE x \in T : TRUE
                       IN  CopiesIn(s, orderflow_signals) + Sum(T \ {s})
    IN  Sum(S)

TakerHash(h) == TxHash(h, "taker", OrderFilled(h).taker)
MakerHash(h) == TxHash(h, "maker", OrderFilled(h).maker)

\* the taker row of order h is stored, is of a wallet at or above
\* min_whale_score, and is inside the 10 s window of the generator
WhaleBuyInWindow(h) ==
    \E t \in BagToSet(orderflow_trades) :
        /\ t.tx_hash = TakerHash(h)
        /\ reputation_score[t.wallet_address] >= min_whale_score
        /\ InWindow(t, WhaleWindowSecs)

WhaleBuyStored(h) ==
    \E t \in BagToSet(orderflow_trades) :
        /\ t.tx_hash = TakerHash(h)
        /\ reputation_score[t.wallet_address] >= min_whale_score

\* C21 (as amended): however often an OrderFilled event of a whale taker is
\* delivered and however many generator cycles run, orderflow_signals holds
\* at most one FOLLOW_WHALE row for its taker trade; it holds exactly one
\* once a cycle has completed, with whale following enabled, while the trade
\* is inside the generator's 10 s window.
C21_AtMostOneFollowSignal ==
    \A h \in OrderHashes :
        /\ FollowSignals(TakerHash(h)) <= 1
        /\ (/\ lastCycle.result = "ok"
            /\ enable_whale_following
            /\ WhaleBuyInWindow(h)) => FollowSignals(TakerHash(h)) = 1

\* a second delivery of the event of order 1 found both rows stored, and a
\* cycle that completed after it, with the trade still in the window, left
\* the one signal alone
C21_Witness ==
    /\ lastCycle.redelivered = 1
    /\ lastCycle.result = "ok"
    /\ WhaleBuyInWindow(1)
    /\ FollowSignals(TakerHash(1)) = 1

\* C21 (as stated): once the event of a whale taker is stored and a generator
\* cycle has completed, there is exactly one FOLLOW_WHALE signal for it.
C21_ExactlyOneFollowSignal ==
    \A h \in OrderHashes :
        (lastCycle.result = "ok" /\ WhaleBuyStored(h))
            => FollowSignals(TakerHash(h)) = 1

\* C22: no tx_hash has more than one row in orderflow_trades; after a
\* successful process_order_filled the event has exactly one maker row, a
\* SELL, and one taker row, a BUY; and a delivery that finds both rows stored
\* inserts nothing and returns Ok.
C22_OneRowPerDerivedSide ==
    /\ \A h \in OrderHashes :
          TradeRows(MakerHash(h)) <= 1 /\ TradeRows(TakerHash(h)) <= 1
    /\ lastIngest.result = "ok" =>
          /\ TradeRows(MakerHash(lastIngest.order_hash)) = 1
          /\ TradeRows(TakerHash(lastIngest.order_hash)) = 1
          /\ \A t \in BagToSet(orderflow_trades) :
                /\ t.tx_hash = MakerHash(lastIngest.order_hash) => t.side = "SELL"
                /\ t.tx_hash = TakerHash(lastIngest.order_hash) => t.side = "BUY"
          /\ lastIngest.existed = 2 => lastIngest.inserted = 0

\* the same event was delivered again and its two rows were already stored
C22_Witness ==
    /\ lastIngest.result = "ok"
    /\ lastIngest.existed = 2
    /\ lastIngest.inserted = 0

\* the wallets at or below max_fade_score with a SELL of an asset inside the
\* 30 s window
DegenSellers(asset) ==
    {t.wallet_address : t \in {s \in PanicSells : s.token_id = asset}}

\* C23: a generator cycle that completes with fading enabled emits a
\* FADE_DEGEN signal for exactly the markets in which at least PanicThreshold
\* low-score wallets sold within the last 30 s.
C23_FadeIffFiveDegenSellers ==
    (lastCycle.result = "ok" /\ enable_degen_fading) =>
        /\ \A f \in lastCycle.fade :
              /\ f.market_id \in FlowAssets
              /\ Cardinality(DegenSellers(f.market_id)) >= PanicThreshold
        /\ \A a \in FlowAssets :
              Cardinality(DegenSellers(a)) >= PanicThreshold
                  => FadeSignal(a) \in lastCycle.fade

\* ---- order-flow executor: signals below the confidence minimum ------------

\* C24: while execute_pending_signals runs its loop, every signal its query
\* passed over for a confidence below min_signal_confidence alone (the signal
\* is inside the 5-minute window) has left PENDING for SKIPPED.
C24_LowConfidenceMarkedSkipped ==
    execPc = "loop" =>
        \A id \in 1..Len(signals) :
            (/\ signals[id].confidence < min_signal_confidence
             /\ signals[id].created_at > execNow - SignalWindow)
                => signals[id].status = "SKIPPED"

\* ---- directional session: the recorded entry ----------------------------

\* C25: after a tick that ran the ladder and counted at least one level, the
\* recorded entry price is the average of the prices of the counted levels:
\* entry_price = (sum of their prices) / (their number).
C25_EntryPriceAveragesCountedLevels ==
    (lastEntry.seen /\ position_levels # {}) =>
        entry_price.num * Cardinality(position_levels)
            = entry_price.den * SumLevelPrices(lastEntry.best_ask,
                                               position_levels)

\* ---- order creation: the price of a candidate order ---------------------

\* a price strictly between 0 and 1 (100 cents) that is a multiple of the tick
PriceInRangeAndAligned(price, tick) ==
    price > 0 /\ price < 100 /\ price % tick = 0

\* C26: every order that was signed or submitted has a price strictly between
\* 0 and 1 that is aligned to the market's tick_size.
C26_InvalidPriceNeverSigned ==
    \A o \in signed_orders \cup submitted_orders :
        PriceInRangeAndAligned(o.price, o.tick_size)

\* ---- ladder session: the moderate rebalance ------------------------------

\* the step of rebalance_if_needed
RebalanceStep == sessPc = "rebalance" /\ sessPc' = "monitor"

\* an imbalance above 20% and at most 40% of the average of the two sides
ModerateImbalance(pos) ==
    LET diff == Abs(pos.up_shares - pos.down_shares)
        sum == pos.up_shares + pos.down_shares
    IN  pos # NoPosition /\ sum > 0 /\ 10 * diff > sum /\ 5 * diff <= sum

ShareDeficit(pos) == Abs(pos.up_shares - pos.down_shares)
LaggingToken(pos) == IF pos.up_shares > pos.down_shares THEN "DOWN" ELSE "UP"

RECURSIVE TotalSize(_)
TotalSize(orders) ==
    IF orders = {} THEN 0
    ELSE LET o == CHOOSE x \in orders : TRUE
         IN  o.size + TotalSize(orders \ {o})

C28_MinuteGuardMillisecondExact ==
    [][DirTickStep /\ MsToEnd > entry_minute_min_secs * 1000
         => /\ dir_orders' = dir_orders
            /\ has_entered' = has_entered
            /\ skip_reason' = skip_reason]_vars

\* ---------------------------------------------------------------------
\* C29: an order pre-signed at session start stays retrievable from the
\* pre-sign cache for the whole 15-minute session: throughout the
\* session every key signed at second 0 is still served by get_order
\* and no cached order has expired.
\* ---------------------------------------------------------------------
SignedAtSessionStart == {c \in presigned_cache : c.created_at = 0}

C29_SessionStartOrderRetrievable ==
    presignNow <= SessionSecs =>
        \A c \in SignedAtSessionStart : get_order(c.key)

\* ---------------------------------------------------------------------
\* C30: in the multi-strategy simulator a virtual BUY order is filled
\* only when its limit price is >= the current best ask of the book, and
\* a virtual SELL order only when its limit is <= the current best bid.
\* ---------------------------------------------------------------------
OrderFills == {f \in lastFills : f.path # "exit"}

FillCrossesBook(f) ==
    IF f.side = "BUY"
    THEN \E a \in f.ask : f.limit >= a
    ELSE \E b \in f.bid : f.limit <= b

C30_FillOnlyWhenLimitCrossesBook == \A f \in OrderFills : FillCrossesBook(f)

\* ---------------------------------------------------------------------
\* C31: after any sequence of snapshots and level updates, no price level
\* with size zero is retained in either ladder of the orderbook mirror:
\* every key of bids and of asks has a size above 0.
\* ---------------------------------------------------------------------
C31_NoZeroSizeRetained ==
    /\ \A p \in lob.bid_keys : lob.bids[p] > 0
    /\ \A p \in lob.ask_keys : lob.asks[p] > 0

\* a level update of size 0 has just removed a level, another one stays
C31_Witness ==
    /\ lobOp.op = "update_level"
    /\ lobOp.level.size = 0
    /\ lobOp.level.is_bid
    /\ lobOp.level.price \notin lob.bid_keys
    /\ lob.bid_keys # {}

\* ---- BTC price feed -----------------------------------------------------

\* C32: the fallback price source writes the fallback price only: no step
\* of the secondary task (Binance or Kraken) changes current_price, the
\* price history or market_open_price.
SecondaryStep == feedPc'["secondary"] # feedPc["secondary"]

C32_FallbackLeavesPrimaryAlone ==
    [][SecondaryStep =>
          UNCHANGED <<current_price, price_history, market_open_price>>]_vars

\* the secondary source has written a price that differs from the primary
\* one, with the market open marked
C32_Witness ==
    /\ binance_price # {}
    /\ current_price \notin binance_price
    /\ current_price \in FeedPrices
    /\ market_open_price # {}
    /\ feedPc["secondary"] = "idle"

\* C33: after any sequence of price updates and mark/clear operations,
\* predicted_outcome is UP when the current price is above the market-open
\* price, DOWN when it is below, and None when they are equal or no
\* market-open price is set.
C33_PredictedOutcomeFollowsPrice ==
    lastOutcome.called =>
        /\ lastOutcome.result = "UP"
               <=> \E open \in lastOutcome.open : lastOutcome.now > open
        /\ lastOutcome.result = "DOWN"
               <=> \E open \in lastOutcome.open : lastOutcome.now < open
        /\ lastOutcome.result = "None"
               <=> \/ lastOutcome.open = {}
                   \/ lastOutcome.now \in lastOutcome.open

\* DOWN was returned after the market open was marked and two prices came
C33_Witness ==
    /\ lastOutcome.called
    /\ lastOutcome.result = "DOWN"
    /\ lastOutcome.now = current_price
    /\ Len(price_history) = max_history

\* C34: is_momentum_aligned and get_momentum_confidence always return
\* under any interleaving with the price-feed writer tasks: the runner is
\* never left inside the call waiting for its nested read while a writer
\* waits for the runner's outer guard.
C34_NestedReadNeverBlocked ==
    ~(/\ feedPc["runner"] = "is_momentum_aligned"
      /\ rw_readers > 0
      /\ ~ReadGranted)

\* ---- ladder session: repeated rebalancing -------------------------------

\* the rebalance orders resting on the exchange for a token
RestingRebalanceOrders(orders, token) ==
    {o \in orders : o.origin = "rebalance" /\ o.token = token}

\* C35: over any sequence of fills in a session, the total size of
\* rebalance orders submitted on the lagging side never exceeds the share
\* deficit they correct: when rebalance_if_needed places orders, they and
\* the rebalance orders already resting on that side total at most the
\* deficit of the position.
C35_RebalanceNeverExceedsDeficit ==
    [][RebalanceStep /\ exch_orders' # exch_orders
         => TotalSize(RestingRebalanceOrders(exch_orders',
                                             LaggingToken(should_rebalance)))
                <= ShareDeficit(should_rebalance)]_vars

\* ---- order-flow executor: the cap within one cycle ----------------------

\* an iteration of the loop that executed its signal
ExecutedStep == executed_count' = executed_count + 1

\* C36: within one executor cycle the signals executed never take the
\* number of open positions above max_open_positions: a signal is executed
\* only while the open positions and the signals already executed in this
\* cycle are together below the cap.
C36_ExecutedSignalsCountAgainstCap ==
    [][ExecutedStep =>
          open_positions + executed_count < max_open_positions]_vars

\* ---- directional session: one entry ladder a session --------------------

\* C37: within one session the Directional runner sends its entry ladder to
\* the exchange at most once: after a tick on which entry orders were
\* submitted, whether or not the exchange accepted them, the next tick of
\* that session submits no entry orders.
C37_EntryLadderSentOnce ==
    [][DirTickStep /\ lastEntry.submitted # {}
         => lastEntry'.submitted = {}]_vars

\* ---- order-flow generator: one fade signal a cluster --------------------

\* C38: one panic-sell cluster yields at most one FADE_DEGEN signal per
\* (market, outcome): all trades of the model fall into one 30-second
\* window, so orderflow_signals holds at most one FADE_DEGEN row a market.
C38_OneFadeSignalPerCluster ==
    \A market_id \in FlowAssets \cup {NoMarket} :
        CopiesIn(FadeSignal(market_id), orderflow_signals) <= 1

\* ---- order-flow listener: the fills of one order -----------------------

\* C39: distinct fills of the same order (same orderHash, maker and taker,
\* different filled amounts) are each stored as their own trade rows: after
\* a fill was processed, orderflow_trades holds a maker row and a taker row
\* of that order with the amount of that fill.
C39_EachFillHasItsRows ==
    lastIngest.result = "ok" =>
        \A tx_hash \in {MakerHash(lastIngest.order_hash),
                        TakerHash(lastIngest.order_hash)} :
            \E t \in BagToSet(orderflow_trades) :
                t.tx_hash = tx_hash /\ t.size = lastIngest.amount

\* ---- circuit breaker -----------------------------------------------------

\* C40: CircuitBreaker::is_open always returns without blocking: the task
\* inside is_open is never waiting for the mutex of last_failure while it
\* holds that mutex itself.
C40_IsOpenNeverBlocks ==
    ~(/\ breakerPc["caller"] = "reset_lock"
      /\ last_failure_lock = "caller")

====
